---------------------------- MODULE Spec2Model ----------------------------
(***************************************************************************)
(* Model of the EDGE growth engine of NorMITs-Demand:                      *)
(*   normits_demand/models/forecasting/EDGE_growth/utils.py                *)
(*   normits_demand/models/forecasting/EDGE_growth/growth_matrices.py      *)
(* and of the entry points around it:                                      *)
(*   run_helper_scripts/post_me_adjustment.py                              *)
(*   normits_demand/models/notem/notem.py                                  *)
(*   normits_demand/models/notem_production_model.py                       *)
(*                                                                         *)
(* Numbers are exact rationals <<n, d>> (d > 0, lowest terms); the missing *)
(* marker NaN of pandas/numpy is the pair <<0, 0>>.  A numpy array is a    *)
(* function over 0-based positions <<i, j>>; a long table is a bag of rows.*)
(***************************************************************************)
EXTENDS Integers, Sequences, FiniteSets, Bags, TLC

(***************************************************************************)
(* Bounds of the model                                                     *)
(***************************************************************************)
\* largest integer growth factor an input cell or record may carry
MaxFactor == 2
\* number of cells of the growth-matrix input that may differ from its base
MaxEdits == 2
\* number of rows of the growth-factor table
MaxRecords == 3
\* number of model zones (the default zones=1300 of expand_matrix, scaled down)
ZoneCount == 2
\* largest demand of a row of the zonal demand matrix
MaxDemand == 2
\* number of rows of the zonal demand matrix and of the split-probability table
MaxDemandRows == 2
MaxProps == 2
\* split proportions are the multiples of 1 / PropSteps in (0, 1]
PropSteps == 2
\* userclasses of the split-probability table
MaxUserclass == 2
\* zones of a prior or post ME matrix, the zone labels they are drawn from, and
\* the largest value of a cell
MaxZones == 2
MaxLabel == 3
MaxCell == 1
\* entries of the prior folder and files of the post ME folder
MaxFiles == 2
\* years the arguments of a model constructor may be keyed by
MaxYears == 3

\* journey purposes of the demand-segments table
Purposes == {"Business", "Commuting"}
\* the three ticket types fill_missing_factors reads
TicketTypes == {"F", "R", "S"}
\* station lookup: STATIONCODE -> stn_zone_id, dense in 1..S
stations_lookup ==
    { [STATIONCODE |-> "LDS", stn_zone_id |-> 2],
      [STATIONCODE |-> "MAN", stn_zone_id |-> 1] }

(***************************************************************************)
(* Exact arithmetic                                                        *)
(***************************************************************************)
RECURSIVE GCD(_, _)
GCD(a, b) == IF b = 0 THEN a ELSE GCD(b, a % b)

Abs(n) == IF n < 0 THEN -n ELSE n

\* the non-finite floats: NaN, and +inf / -inf as <<1, 0>> / <<-1, 0>>
NaN == <<0, 0>>
IsNaN(x) == x = NaN
IsFinite(x) == x[2] # 0

Sign(n) == IF n > 0 THEN 1 ELSE IF n < 0 THEN -1 ELSE 0

Rat(n, d) ==
    LET g == GCD(Abs(n), Abs(d))
    IN  IF d = 0 THEN <<Sign(n), 0>>
        ELSE IF d < 0 THEN <<(-n) \div g, (-d) \div g>>
        ELSE <<n \div g, d \div g>>

Num(n) == <<n, 1>>
Zero == Num(0)
One == Num(1)

\* x == 0 of numpy: NaN == 0 is False
IsZero(x) == x = Zero

\* x > 0: False for NaN
IsPositive(x) == x[1] > 0

RAdd(x, y) ==
    IF IsFinite(x) /\ IsFinite(y) THEN Rat(x[1] * y[2] + y[1] * x[2], x[2] * y[2])
    ELSE IF IsNaN(x) \/ IsNaN(y) THEN NaN
    ELSE IF IsFinite(x) THEN y
    ELSE IF IsFinite(y) \/ x = y THEN x
    ELSE NaN

RMul(x, y) ==
    IF IsNaN(x) \/ IsNaN(y) THEN NaN
    ELSE Rat(x[1] * y[1], x[2] * y[2])

\* float division: 0 / 0 is NaN, x / 0 is infinite
RDiv(x, y) ==
    IF IsNaN(x) \/ IsNaN(y) THEN NaN
    ELSE IF ~IsFinite(y) THEN (IF IsFinite(x) THEN Zero ELSE NaN)
    ELSE IF y[1] < 0 THEN Rat(-(x[1] * y[2]), -(x[2] * y[1]))
    ELSE Rat(x[1] * y[2], x[2] * y[1])

\* NaN in an identifier column
NaNId == -1
\* NaN in a text column
NaNText == "NaN"

(***************************************************************************)
(* numpy helpers used by fill_missing_factors                              *)
(***************************************************************************)
\* mx == 0 : the boolean array of the cells that are exactly zero
np_eq0(mx) == [ij \in DOMAIN mx |-> IsZero(mx[ij])]

\* np.argwhere(cond) : the positions where cond holds
np_argwhere(cond) == {ij \in DOMAIN cond : cond[ij]}

\* np.where(cond, x, y) : a new array, x where cond holds and y elsewhere
np_where(cond, x, y) == [ij \in DOMAIN cond |-> IF cond[ij] THEN x[ij] ELSE y[ij]]

\* the final default left at zero
np_zeros_like(mx) == [ij \in DOMAIN mx |-> Zero]

\* the scalar 1 broadcast to the shape of mx
np_ones_like(mx) == [ij \in DOMAIN mx |-> One]


(***************************************************************************)
(* Long tables: bags of rows                                               *)
(***************************************************************************)
RECURSIVE SumNat(_, _)
\* sum of the natural numbers f[x], x in D
SumNat(f, D) ==
    IF D = {} THEN 0
    ELSE LET x == CHOOSE y \in D : TRUE IN f[x] + SumNat(f, D \ {x})

RECURSIVE SumRat(_, _)
\* sum of the rationals f[x], x in D
SumRat(f, D) ==
    IF D = {} THEN Zero
    ELSE LET x == CHOOSE y \in D : TRUE IN RAdd(f[x], SumRat(f, D \ {x}))

RECURSIVE SortedSeq(_)
\* the integers of D in ascending order
SortedSeq(D) ==
    IF D = {} THEN <<>>
    ELSE LET m == CHOOSE y \in D : \A z \in D : y <= z
         IN  <<m>> \o SortedSeq(D \ {m})

\* the table whose rows are img[x] for the rows x of table (a column
\* selection, a rename or a fill): rows that become equal stay separate rows
map_rows(table, img) ==
    LET out == {img[x] : x \in DOMAIN table}
    IN  [y \in out |-> SumNat(table, {x \in DOMAIN table : img[x] = y})]

\* the origin and destination columns of a long matrix
od_cols(stations) ==
    IF stations THEN <<"from_stn_zone_id", "to_stn_zone_id">>
    ELSE <<"from_model_zone_id", "to_model_zone_id">>

\* a row of the three-column long matrix [origin, destination, Demand]
long_row(stations, f, t, d) ==
    IF stations THEN [from_stn_zone_id |-> f, to_stn_zone_id |-> t, Demand |-> d]
    ELSE [from_model_zone_id |-> f, to_model_zone_id |-> t, Demand |-> d]

\* the columns that hold numbers; the others hold identifiers
value_cols == {"Demand", "proportion", "stn_from_zone", "stn_to_zone",
               "stn2stn_total_demand"}

\* the table with its missing values left in place
fillna_skipped(table) == table

\* DataFrame.fillna(0): every missing value of every column becomes 0
fillna0(table) ==
    map_rows(table,
        [x \in DOMAIN table |->
            [c \in DOMAIN x |->
                IF c \in value_cols THEN (IF IsNaN(x[c]) THEN Zero ELSE x[c])
                ELSE (IF x[c] = NaNId THEN 0 ELSE x[c])]])

(***************************************************************************)
(* utils.transpose_matrix                                                  *)
(***************************************************************************)
\* from_col renamed to to_col only: the destination column takes the origin's
\* values and the origin column keeps them
transpose_matrix_one_way(mx_df, stations) ==
    LET from_col == od_cols(stations)[1]
        to_col == od_cols(stations)[2]
    IN  map_rows(mx_df,
            [x \in DOMAIN mx_df |->
                [c \in DOMAIN x |->
                    IF c = to_col /\ from_col \in DOMAIN x THEN x[from_col] ELSE x[c]]])

\* lines 131-143: rename from_col to to_col and to_col to from_col
transpose_matrix(mx_df, stations) ==
    LET from_col == od_cols(stations)[1]
        to_col == od_cols(stations)[2]
        renamed(c) == IF c = from_col THEN to_col
                      ELSE IF c = to_col THEN from_col ELSE c
    IN  map_rows(mx_df,
            [x \in DOMAIN mx_df |->
                [c \in {renamed(d) : d \in DOMAIN x} |-> x[renamed(c)]]])

(***************************************************************************)
(* utils.expand_matrix                                                     *)
(***************************************************************************)
\* the movements of range(1, zones) squared
full_grid_short(zones) == (1 .. zones - 1) \X (1 .. zones - 1)

\* lines 172-177: every movement of range(1, zones + 1) squared
full_grid(zones) == (1 .. zones) \X (1 .. zones)

\* the grid appended to the matrix without a merge: every movement gets a new
\* row of Demand 0
expand_matrix_appended(mx_df, zones, stations) ==
    fillna0(mx_df (+) SetToBag({long_row(stations, g[1], g[2], NaN) : g \in full_grid(zones)}))

\* the matrix merged onto the grid with how="left": rows of mx_df outside the
\* grid are dropped
expand_matrix_left(mx_df, zones, stations) ==
    LET od == od_cols(stations)
        unmatched == {g \in full_grid(zones) :
                        \A x \in DOMAIN mx_df : <<x[od[1]], x[od[2]]>> # g}
        grid_rows == {long_row(stations, g[1], g[2], NaN) : g \in unmatched}
        inside == {x \in DOMAIN mx_df : <<x[od[1]], x[od[2]]>> \in full_grid(zones)}
        merged == [x \in inside \cup grid_rows |->
                      IF x \in inside THEN mx_df[x] ELSE 1]
    IN  fillna0(merged)

\* lines 179-181: merge the matrix onto the grid, how="outer", and fillna(0).
\* Every row of mx_df is kept; a grid movement without a row of mx_df gets one
\* row whose Demand is NaN, then 0.
expand_matrix(mx_df, zones, stations) ==
    LET od == od_cols(stations)
        unmatched == {g \in full_grid(zones) :
                        \A x \in DOMAIN mx_df : <<x[od[1]], x[od[2]]>> # g}
        grid_rows == {long_row(stations, g[1], g[2], NaN) : g \in unmatched}
        merged == [x \in DOMAIN mx_df \cup grid_rows |->
                      IF x \in DOMAIN mx_df THEN mx_df[x] ELSE 1]
    IN  fillna0(merged)

(***************************************************************************)
(* utils.long_mx_2_wide_mx                                                 *)
(***************************************************************************)
\* lines 55-60: row, col and value default to the first three columns
row_of(x) == IF "from_stn_zone_id" \in DOMAIN x THEN x.from_stn_zone_id
             ELSE x.from_model_zone_id
col_of(x) == IF "to_stn_zone_id" \in DOMAIN x THEN x.to_stn_zone_id
             ELSE x.to_model_zone_id

\* pivot_table's default aggregation of the rows of one (row, col) key: the mean
pivot_mean(mx_df, r, c) ==
    LET rows == {x \in DOMAIN mx_df :
                    row_of(x) = r /\ col_of(x) = c /\ ~IsNaN(x.Demand)}
        total == SumRat([x \in rows |-> RMul(Num(mx_df[x]), x.Demand)], rows)
        count == SumNat(mx_df, rows)
    IN  IF rows = {} THEN NaN ELSE RDiv(total, Num(count))

\* the pivot with index and columns exchanged
long_mx_2_wide_mx_transposed(mx_df) ==
    LET valid == {x \in DOMAIN mx_df :
                    row_of(x) # NaNId /\ col_of(x) # NaNId /\ ~IsNaN(x.Demand)}
        index == SortedSeq({col_of(x) : x \in valid})
        columns == SortedSeq({row_of(x) : x \in valid})
    IN  [ij \in (0 .. Len(index) - 1) \X (0 .. Len(columns) - 1) |->
            pivot_mean(mx_df, columns[ij[2] + 1], index[ij[1] + 1])]

\* lines 63-65: pivot_table(index=row, columns=col, values=value).values.
\* The array is positioned by the sorted distinct keys, not by their values.
long_mx_2_wide_mx(mx_df) ==
    LET valid == {x \in DOMAIN mx_df :
                    row_of(x) # NaNId /\ col_of(x) # NaNId /\ ~IsNaN(x.Demand)}
        index == SortedSeq({row_of(x) : x \in valid})
        columns == SortedSeq({col_of(x) : x \in valid})
    IN  [ij \in (0 .. Len(index) - 1) \X (0 .. Len(columns) - 1) |->
            pivot_mean(mx_df, index[ij[1] + 1], columns[ij[2] + 1])]

\* lines 55-60 on a table whose columns are in another order than their names
\* say: the first column is the row, the second the column, the third the value
by_position(mx_df, cols) ==
    map_rows(mx_df,
        [x \in DOMAIN mx_df |-> long_row(TRUE, x[cols[1]], x[cols[2]], x[cols[3]])])

(***************************************************************************)
(* utils.wide_mx_2_long_mx                                                 *)
(***************************************************************************)
\* the melted frame with the array positions as identifiers
wide_mx_2_long_mx_zero_based(mx_np) ==
    SetToBag({long_row(TRUE, ij[1], ij[2], mx_np[ij]) : ij \in DOMAIN mx_np})

\* lines 99-108: one row per cell, rows and cols are the array positions + 1
wide_mx_2_long_mx(mx_np) ==
    SetToBag({long_row(TRUE, ij[1] + 1, ij[2] + 1, mx_np[ij]) : ij \in DOMAIN mx_np})

\* lines 72-74 and 105: the columns of the melted frame
long_columns == <<"from_stn_zone_id", "to_stn_zone_id", "Demand">>

(***************************************************************************)
(* Column order of a long table                                            *)
(***************************************************************************)
\* lines 138-143 of transpose_matrix: the rename keeps the column positions
transpose_columns(cols, stations) ==
    LET from_col == od_cols(stations)[1]
        to_col == od_cols(stations)[2]
    IN  [n \in DOMAIN cols |->
            IF cols[n] = from_col THEN to_col
            ELSE IF cols[n] = to_col THEN from_col ELSE cols[n]]

\* lines 172-181 of expand_matrix: the merge puts od_cols first, then the
\* other columns of mx_df in their order
expand_columns(cols, stations) ==
    od_cols(stations)
        \o SelectSeq(cols, LAMBDA c : c # od_cols(stations)[1] /\ c # od_cols(stations)[2])

\* whether a table carries the station columns
is_stations(cols) == \E n \in DOMAIN cols : cols[n] = "from_stn_zone_id"

(***************************************************************************)
(* utils.merge_to_stations                                                 *)
(***************************************************************************)
\* a row of only missing values, as a right join makes for an unmatched station
nan_record ==
    [ZoneCodeFrom |-> NaNText, ZoneCodeTo |-> NaNText, purpose |-> NaNText,
     TicketType |-> NaNText, Demand |-> NaN,
     from_stn_zone_id |-> NaNId, to_stn_zone_id |-> NaNId]

\* lines 199-208: df.merge(stations_lookup, how="right") on the origin code
merge_from(lookup, df, left_from) ==
    {[ZoneCodeFrom |-> r.ZoneCodeFrom, ZoneCodeTo |-> r.ZoneCodeTo,
      purpose |-> r.purpose, TicketType |-> r.TicketType, Demand |-> r.Demand_rate,
      from_stn_zone_id |-> stn.stn_zone_id, to_stn_zone_id |-> NaNId] :
        <<r, stn>> \in {x \in df \X lookup : x[1][left_from] = x[2].STATIONCODE}}
    \cup
    {[nan_record EXCEPT !.from_stn_zone_id = stn.stn_zone_id] :
        stn \in {l \in lookup : \A r \in df : r[left_from] # l.STATIONCODE}}

\* lines 210-215: the second right join, on the destination code
merge_to(lookup, rows, left_to) ==
    {[r EXCEPT !.to_stn_zone_id = stn.stn_zone_id] :
        <<r, stn>> \in {x \in rows \X lookup : x[1][left_to] = x[2].STATIONCODE}}
    \cup
    {[nan_record EXCEPT !.to_stn_zone_id = stn.stn_zone_id] :
        stn \in {l \in lookup : \A r \in rows : r[left_to] # l.STATIONCODE}}

\* every row kept, with or without a missing value
dropna_skipped(rows) == rows

\* line 216: dropna(axis=0) drops every row that holds a missing value
dropna(rows) ==
    {r \in rows :
        /\ r.ZoneCodeFrom # NaNText /\ r.ZoneCodeTo # NaNText
        /\ r.purpose # NaNText /\ r.TicketType # NaNText
        /\ ~IsNaN(r.Demand)
        /\ r.from_stn_zone_id # NaNId /\ r.to_stn_zone_id # NaNId}

merge_to_stations(lookup, df, left_from, left_to) ==
    dropna(merge_to(lookup, merge_from(lookup, df, left_from), left_to))

(***************************************************************************)
(* growth_matrices.prepare_growth_matrices                                 *)
(***************************************************************************)
\* lines 79-84: the rows of one purpose and ticket type, as a long matrix
select_segment(rows, purpose, ticket_type) ==
    LET sel == {r \in rows : r.purpose = purpose /\ r.TicketType = ticket_type}
        img == [r \in sel |-> long_row(TRUE, r.from_stn_zone_id, r.to_stn_zone_id, r.Demand)]
    IN  map_rows([r \in sel |-> 1], img)

prepare_growth_matrices(demand_purposes, df, lookup) ==
    LET ticket_types == {r.TicketType : r \in df}
        merged == merge_to_stations(lookup, df, "ZoneCodeFrom", "ZoneCodeTo")
    IN  [p \in demand_purposes |->
            [t \in ticket_types |->
                long_mx_2_wide_mx(
                    expand_matrix(select_segment(merged, p, t),
                                  Cardinality(lookup), TRUE))]]

(***************************************************************************)
(* utils.zonal_from_to_stations_demand                                     *)
(***************************************************************************)
\* lines 297-302: expand to every zone movement, add the userclass column and,
\* for a ToHome demand, transpose
\* the expanded demand tagged with the userclass, the transposition left out
oriented_demand_untransposed(demand, uc, home) ==
    LET expanded == expand_matrix(demand, ZoneCount, FALSE)
    IN  map_rows(expanded,
            [x \in DOMAIN expanded |->
                [from_model_zone_id |-> x.from_model_zone_id,
                 to_model_zone_id |-> x.to_model_zone_id,
                 Demand |-> x.Demand, userclass |-> uc]])

oriented_demand(demand, uc, home) ==
    LET expanded == expand_matrix(demand, ZoneCount, FALSE)
        tagged == map_rows(expanded,
                      [x \in DOMAIN expanded |->
                          [from_model_zone_id |-> x.from_model_zone_id,
                           to_model_zone_id |-> x.to_model_zone_id,
                           Demand |-> x.Demand, userclass |-> uc]])
    IN  IF home THEN transpose_matrix(tagged, FALSE) ELSE tagged

\* lines 304-308: demand_mx.merge(irsj_props, how="left") on the two zones and
\* the userclass; a demand row without a split row keeps missing values
merge_props(demand, props) ==
    LET matches(x) == {pr \in props :
                          /\ pr.from_model_zone_id = x.from_model_zone_id
                          /\ pr.to_model_zone_id = x.to_model_zone_id
                          /\ pr.userclass = x.userclass}
        joined(x, fs, ts, pp) ==
            [from_model_zone_id |-> x.from_model_zone_id,
             to_model_zone_id |-> x.to_model_zone_id,
             Demand |-> x.Demand, userclass |-> x.userclass,
             from_stn_zone_id |-> fs, to_stn_zone_id |-> ts, proportion |-> pp]
        pairs == {<<x, joined(x, pr.from_stn_zone_id, pr.to_stn_zone_id, pr.proportion)>> :
                      <<x, pr>> \in {y \in (DOMAIN demand) \X props : y[2] \in matches(y[1])}}
                 \cup {<<x, joined(x, NaNId, NaNId, NaN)>> :
                      x \in {y \in DOMAIN demand : matches(y) = {}}}
    IN  [row \in {pq[2] : pq \in pairs} |->
            SumNat(demand, {pq[1] : pq \in {y \in pairs : y[2] = row}})]

\* lines 310-313: zone to zone movements with demand but no proportion
find_missing_props(mx_df) ==
    {<<x.from_model_zone_id, x.to_model_zone_id>> :
        x \in {y \in DOMAIN mx_df : IsNaN(y.proportion) /\ IsPositive(y.Demand)}}

\* the proportion column renamed, Demand left as it was
scale_demand_unscaled(mx_df) ==
    map_rows(mx_df,
        [x \in DOMAIN mx_df |->
            [from_model_zone_id |-> x.from_model_zone_id,
             to_model_zone_id |-> x.to_model_zone_id,
             Demand |-> IF IsNaN(x.proportion) THEN NaN ELSE x.Demand,
             userclass |-> x.userclass,
             from_stn_zone_id |-> x.from_stn_zone_id,
             to_stn_zone_id |-> x.to_stn_zone_id,
             stn_from_zone |-> x.proportion]])

\* lines 315-317: rename proportion to stn_from_zone, Demand *= stn_from_zone
scale_demand(mx_df) ==
    map_rows(mx_df,
        [x \in DOMAIN mx_df |->
            [from_model_zone_id |-> x.from_model_zone_id,
             to_model_zone_id |-> x.to_model_zone_id,
             Demand |-> RMul(x.Demand, x.proportion), userclass |-> x.userclass,
             from_stn_zone_id |-> x.from_stn_zone_id,
             to_stn_zone_id |-> x.to_stn_zone_id,
             stn_from_zone |-> x.proportion]])

\* groupby(["from_stn_zone_id", "to_stn_zone_id"])["Demand"].sum(): rows with a
\* missing key are left out and a missing Demand adds nothing
station_pairs(mx_df) ==
    {<<x.from_stn_zone_id, x.to_stn_zone_id>> :
        x \in {y \in DOMAIN mx_df :
                  y.from_stn_zone_id # NaNId /\ y.to_stn_zone_id # NaNId}}

group_sum(mx_df, pair) ==
    LET rows == {x \in DOMAIN mx_df :
                    /\ <<x.from_stn_zone_id, x.to_stn_zone_id>> = pair
                    /\ ~IsNaN(x.Demand)}
    IN  SumRat([x \in rows |-> RMul(Num(mx_df[x]), x.Demand)], rows)

\* the totals taken over the whole frame instead of per station pair
stn2stn_mx_grand_total(mx_df) ==
    LET rows == {x \in DOMAIN mx_df :
                    /\ x.from_stn_zone_id # NaNId /\ x.to_stn_zone_id # NaNId
                    /\ ~IsNaN(x.Demand)}
    IN  [pair \in station_pairs(mx_df) |->
            SumRat([x \in rows |-> RMul(Num(mx_df[x]), x.Demand)], rows)]

\* lines 320-328: the stn2stn demand totals
stn2stn_mx(mx_df) == [pair \in station_pairs(mx_df) |-> group_sum(mx_df, pair)]

\* the totals joined and the ratio taken the other way round
add_stn_to_zone_inverted(mx_df) ==
    LET totals == stn2stn_mx(mx_df)
        total(x) == IF <<x.from_stn_zone_id, x.to_stn_zone_id>> \in DOMAIN totals
                    THEN totals[<<x.from_stn_zone_id, x.to_stn_zone_id>>] ELSE NaN
    IN  map_rows(mx_df,
            [x \in DOMAIN mx_df |->
                [from_model_zone_id |-> x.from_model_zone_id,
                 to_model_zone_id |-> x.to_model_zone_id,
                 Demand |-> x.Demand, userclass |-> x.userclass,
                 from_stn_zone_id |-> x.from_stn_zone_id,
                 to_stn_zone_id |-> x.to_stn_zone_id,
                 stn_from_zone |-> x.stn_from_zone,
                 stn2stn_total_demand |-> total(x),
                 stn_to_zone |-> RDiv(total(x), x.Demand)]])

\* lines 331-339: join the totals and stn_to_zone = Demand / stn2stn_total_demand
add_stn_to_zone(mx_df) ==
    LET totals == stn2stn_mx(mx_df)
        total(x) == IF <<x.from_stn_zone_id, x.to_stn_zone_id>> \in DOMAIN totals
                    THEN totals[<<x.from_stn_zone_id, x.to_stn_zone_id>>] ELSE NaN
    IN  map_rows(mx_df,
            [x \in DOMAIN mx_df |->
                [from_model_zone_id |-> x.from_model_zone_id,
                 to_model_zone_id |-> x.to_model_zone_id,
                 Demand |-> x.Demand, userclass |-> x.userclass,
                 from_stn_zone_id |-> x.from_stn_zone_id,
                 to_stn_zone_id |-> x.to_stn_zone_id,
                 stn_from_zone |-> x.stn_from_zone,
                 stn2stn_total_demand |-> total(x),
                 stn_to_zone |-> RDiv(x.Demand, total(x))]])

\* the lookup columns, rows with a missing value dropped
lookup_table_dropna(mx_df) ==
    LET all_rows == map_rows(mx_df,
                      [x \in DOMAIN mx_df |->
                          [from_model_zone_id |-> x.from_model_zone_id,
                           from_stn_zone_id |-> x.from_stn_zone_id,
                           to_stn_zone_id |-> x.to_stn_zone_id,
                           to_model_zone_id |-> x.to_model_zone_id,
                           stn_from_zone |-> x.stn_from_zone,
                           stn_to_zone |-> x.stn_to_zone]])
        complete == {x \in DOMAIN all_rows :
                        /\ x.from_stn_zone_id # NaNId /\ x.to_stn_zone_id # NaNId
                        /\ ~IsNaN(x.stn_from_zone) /\ ~IsNaN(x.stn_to_zone)}
    IN  [x \in complete |-> all_rows[x]]

\* the lookup columns with the missing values left in
lookup_table_unfilled(mx_df) ==
    map_rows(mx_df,
        [x \in DOMAIN mx_df |->
            [from_model_zone_id |-> x.from_model_zone_id,
             from_stn_zone_id |-> x.from_stn_zone_id,
             to_stn_zone_id |-> x.to_stn_zone_id,
             to_model_zone_id |-> x.to_model_zone_id,
             stn_from_zone |-> x.stn_from_zone,
             stn_to_zone |-> x.stn_to_zone]])

\* lines 342-351 and 369: the lookup columns, missing values filled with 0
lookup_table(mx_df) ==
    fillna0(map_rows(mx_df,
        [x \in DOMAIN mx_df |->
            [from_model_zone_id |-> x.from_model_zone_id,
             from_stn_zone_id |-> x.from_stn_zone_id,
             to_stn_zone_id |-> x.to_stn_zone_id,
             to_model_zone_id |-> x.to_model_zone_id,
             stn_from_zone |-> x.stn_from_zone,
             stn_to_zone |-> x.stn_to_zone]]))

\* lines 353-373: the station columns and Demand, expanded to every station
\* movement, summed by station pair, without the no-record station 0, pivoted
station_matrix(mx_df, stations_count) ==
    LET stn_df == map_rows(mx_df,
                      [x \in DOMAIN mx_df |->
                          long_row(TRUE, x.from_stn_zone_id, x.to_stn_zone_id, x.Demand)])
        expanded == expand_matrix(stn_df, stations_count, TRUE)
        summed == {long_row(TRUE, pair[1], pair[2], group_sum(expanded, pair)) :
                      pair \in station_pairs(expanded)}
        kept == {x \in summed : x.from_stn_zone_id # 0 /\ x.to_stn_zone_id # 0}
    IN  long_mx_2_wide_mx(fillna0([x \in kept |-> 1]))

\* the frame after line 339, from which both results are taken
zonal_frame(demand, props, uc, home) ==
    add_stn_to_zone(scale_demand(merge_props(oriented_demand(demand, uc, home), props)))

\* the records the function writes to a log: it has no logging call
log_records(missing) == <<>>

(***************************************************************************)
(* State                                                                   *)
(***************************************************************************)
VARIABLES
    pc,                      \* position of the function under way: "input", "prepared",
                             \* "fill", "done", "error", "returned", "ValueError",
                             \* "iterating", "exhausted", "run", "constructed"
    factors_df,              \* EDGE growth-factor records (rows of the input table)
    purposes,                \* list of journey purposes handed to the functions
    stn_factors_df,          \* factors_df after merge_to_stations (lines 57-71)
    growth_matrices,         \* purpose -> ticket type -> wide matrix
    base,                    \* value of the cells of a directly supplied matrix set
    k,                       \* position of fill_missing_factors' loop in purposes
    filled_growth_matrices,  \* purpose -> ticket type -> filled wide matrix
    missing_factors,         \* purpose -> ticket type -> positions that were zero
    demand_mx,               \* zonal demand matrix, long form
    irsj_props,              \* iRSj split probabilities
    userclass,               \* userclass of the segment
    to_home,                 \* whether the demand is a ToHome demand
    missing_props,           \* local of zonal_from_to_stations_demand (lines 310-313)
    np_mx,                   \* returned station to station matrix
    zonal_from_to_stns,      \* returned zonal <> stations lookup
    logged,                  \* records written to a log by the function
    mx_in,                   \* long table handed to the matrix conversions
    columns_in,              \* its column names, in order
    mx_df,                   \* long table after the conversions applied so far
    columns,                 \* its column names, in order
    wide_mx,                 \* array returned by the last long_mx_2_wide_mx
    ops,                     \* the conversions applied so far, in order
    prior,                   \* prior matrix read by production_trip_ends
    post,                    \* post matrix read by production_trip_ends
    productions,             \* the tuple production_trip_ends returns
    prior_folder,            \* entries of the folder of prior matrices
    post_folder,             \* files of the folder of post ME matrices
    remaining,               \* entries iterdir() has not produced yet
    yielded,                 \* the MatrixDetails iter_od_matrices has yielded, in order
    warnings,                \* priors logged as having no post ME matrix
    run_args,                \* the flags NoTEM.run was called with
    generate,                \* model -> flag after lines 190-200 of NoTEM.run
    step,                    \* position of NoTEM.run in lines 209-219
    running,                 \* the trip end model that is running, or "none"
    started,                 \* the trip end models started, in order
    completed,               \* the trip end models that have returned, in order
    hb_attractions,          \* years of the hb_attractions argument
    land_use_paths,          \* years of the land_use_paths argument, in key order
    constraint_paths,        \* years of the constraint_paths argument, or None
    self_attrs,              \* attributes assigned to the NHBProductionModel
    created                  \* report folder and output paths created on disk

growth_vars == <<factors_df, purposes, stn_factors_df, growth_matrices, base, k,
                 filled_growth_matrices, missing_factors>>

zonal_vars == <<demand_mx, irsj_props, userclass, to_home, missing_props,
                np_mx, zonal_from_to_stns, logged>>

shape_vars == <<mx_in, columns_in, mx_df, columns, wide_mx, ops>>

tripend_vars == <<prior, post, productions>>

iter_vars == <<prior_folder, post_folder, remaining, yielded, warnings>>

notem_vars == <<run_args, generate, step, running, started, completed>>

nhb_vars == <<hb_attractions, land_use_paths, constraint_paths, self_attrs, created>>

frontend_vars == <<tripend_vars, iter_vars, notem_vars, nhb_vars>>

vars == <<pc, growth_vars, zonal_vars, shape_vars, frontend_vars>>

\* the value None of python for an optional dictionary of years
None == [given |-> FALSE, years |-> {}]

\* the variables of the matrix comparison while another function runs
tripend_idle == prior = <<>> /\ post = <<>> /\ productions = <<>>

\* the variables of the folder iteration while another function runs
iter_idle ==
    /\ prior_folder = {} /\ post_folder = {} /\ remaining = {}
    /\ yielded = <<>> /\ warnings = {}

\* the variables of NoTEM.run while another function runs
notem_idle ==
    /\ run_args = <<>> /\ generate = <<>> /\ step = 0
    /\ running = "none" /\ started = <<>> /\ completed = <<>>

\* the variables of the NHBProductionModel constructor while another function runs
nhb_idle ==
    /\ hb_attractions = {} /\ land_use_paths = <<>> /\ constraint_paths = None
    /\ self_attrs = <<>> /\ created = {}

frontend_idle == tripend_idle /\ iter_idle /\ notem_idle /\ nhb_idle

\* the zonal variables while the growth functions run
zonal_idle ==
    /\ demand_mx = {} /\ irsj_props = {} /\ userclass = 0 /\ to_home = FALSE
    /\ missing_props = {} /\ np_mx = <<>> /\ zonal_from_to_stns = <<>> /\ logged = <<>>

\* the conversion variables while the growth or zonal functions run
shape_idle ==
    /\ mx_in = <<>> /\ columns_in = <<>> /\ mx_df = <<>> /\ columns = <<>>
    /\ wide_mx = <<>> /\ ops = <<>>

\* the growth variables while zonal_from_to_stations_demand runs
growth_idle ==
    /\ factors_df = {} /\ purposes = <<>> /\ stn_factors_df = {}
    /\ growth_matrices = <<>> /\ base = 0
    /\ k = 0 /\ filled_growth_matrices = <<>> /\ missing_factors = <<>>

\* number of stations S: len(stations_lookup)
S == Cardinality(stations_lookup)
\* positions of an S x S numpy array
Positions == (0 .. S - 1) \X (0 .. S - 1)
\* integer growth factors of the inputs
Factors == 0 .. MaxFactor
\* the lists of purposes a caller may pass (loading.load_globals drops duplicates)
PurposeLists ==
    {<<>>} \cup {<<p>> : p \in Purposes}
           \cup {<<p, q>> : <<p, q>> \in {x \in Purposes \X Purposes : x[1] # x[2]}}

ListItems(list) == {list[n] : n \in 1 .. Len(list)}

(***************************************************************************)
(* fill_missing_factors                                                    *)
(***************************************************************************)
\* the matrices of the purpose of the previous iteration left in f_mx, r_mx, s_mx
current_matrices_stale(gm, purpose) ==
    IF k > 1 THEN gm[purposes[k - 1]] ELSE gm[purpose]

\* lines 130-132: the current matrices of the purpose being processed
current_matrices(gm, purpose) == gm[purpose]

\* the positions reported as (col, row)
missing_of_transposed(mx) == {<<ij[2], ij[1]>> : ij \in np_argwhere(np_eq0(mx))}

\* lines 133-135: positions that are zero in the original matrix
missing_of(mx) == np_argwhere(np_eq0(mx))

\* full filled from Season before Reduced
filled_f_mx_season_first(f_mx, r_mx, s_mx) ==
    LET a == np_where(np_eq0(f_mx), s_mx, f_mx)
        b == np_where(np_eq0(a), r_mx, a)
    IN  np_where(np_eq0(b), np_ones_like(b), b)

\* lines 138-140: full - order F > R > S
filled_f_mx(f_mx, r_mx, s_mx) ==
    LET a == np_where(np_eq0(f_mx), r_mx, f_mx)
        b == np_where(np_eq0(a), s_mx, a)
    IN  np_where(np_eq0(b), np_ones_like(b), b)

\* reduced filled from Season before Full
filled_r_mx_season_first(f_mx, r_mx, s_mx) ==
    LET a == np_where(np_eq0(r_mx), s_mx, r_mx)
        b == np_where(np_eq0(a), f_mx, a)
    IN  np_where(np_eq0(b), np_ones_like(b), b)

\* reduced with the branches of the first np.where exchanged
filled_r_mx_swapped(f_mx, r_mx, s_mx) ==
    LET a == np_where(np_eq0(r_mx), r_mx, f_mx)
        b == np_where(np_eq0(a), s_mx, a)
    IN  np_where(np_eq0(b), np_ones_like(b), b)

\* lines 142-144: reduced - order R > F > S
filled_r_mx(f_mx, r_mx, s_mx) ==
    LET a == np_where(np_eq0(r_mx), f_mx, r_mx)
        b == np_where(np_eq0(a), s_mx, a)
    IN  np_where(np_eq0(b), np_ones_like(b), b)

\* season filled from Full before Reduced
filled_s_mx_full_first(f_mx, r_mx, s_mx) ==
    LET a == np_where(np_eq0(s_mx), f_mx, s_mx)
        b == np_where(np_eq0(a), r_mx, a)
    IN  np_where(np_eq0(b), np_ones_like(b), b)

\* lines 146-148: season - order S > R > F
filled_s_mx(f_mx, r_mx, s_mx) ==
    LET a == np_where(np_eq0(s_mx), r_mx, s_mx)
        b == np_where(np_eq0(a), f_mx, a)
    IN  np_where(np_eq0(b), np_ones_like(b), b)

\* the filled matrices written back into the argument
input_after_iteration_in_place(gm, purpose, new_f, new_r, new_s) ==
    [gm EXCEPT ![purpose]["F"] = new_f, ![purpose]["R"] = new_r, ![purpose]["S"] = new_s]

\* the argument growth_matrices after one loop iteration: np.where builds new
\* arrays and the loop assigns only to the two result dicts
input_after_iteration(gm, purpose, new_f, new_r, new_s) == gm

\* lines 126-127: the call creates the two result dicts, one empty dict per purpose
fill_call ==
    /\ pc = "prepared"
    /\ pc' = IF Len(purposes) = 0 THEN "done" ELSE "fill"
    /\ k' = 1
    /\ filled_growth_matrices' = [p \in ListItems(purposes) |-> <<>>]
    /\ missing_factors' = [p \in ListItems(purposes) |-> <<>>]
    /\ UNCHANGED <<factors_df, purposes, stn_factors_df, growth_matrices, base>>
    /\ UNCHANGED zonal_vars
    /\ UNCHANGED shape_vars
    /\ UNCHANGED frontend_vars

\* the iteration with a purpose that lacks a matrix passed over
fill_iteration_skipping ==
    /\ pc = "fill"
    /\ k <= Len(purposes)
    /\ LET purpose == purposes[k]
       IN  IF purpose \in DOMAIN growth_matrices
              /\ TicketTypes \subseteq DOMAIN growth_matrices[purpose]
           THEN LET cur == current_matrices(growth_matrices, purpose)
                    new_f == filled_f_mx(cur["F"], cur["R"], cur["S"])
                    new_r == filled_r_mx(cur["F"], cur["R"], cur["S"])
                    new_s == filled_s_mx(cur["F"], cur["R"], cur["S"])
                IN  /\ missing_factors' =
                          [missing_factors EXCEPT ![purpose] =
                              [t \in TicketTypes |-> missing_of(cur[t])]]
                    /\ filled_growth_matrices' =
                          [filled_growth_matrices EXCEPT ![purpose] =
                              [t \in TicketTypes |->
                                  IF t = "F" THEN new_f
                                  ELSE IF t = "R" THEN new_r ELSE new_s]]
           ELSE UNCHANGED <<filled_growth_matrices, missing_factors>>
    /\ k' = k + 1
    /\ pc' = IF k = Len(purposes) THEN "done" ELSE "fill"
    /\ UNCHANGED <<factors_df, purposes, stn_factors_df, base, growth_matrices>>
    /\ UNCHANGED zonal_vars
    /\ UNCHANGED shape_vars
    /\ UNCHANGED frontend_vars

\* lines 128-153: one iteration of the loop over purposes; line 155 returns
\* after the last one.  A purpose or ticket type that is no key raises KeyError.
fill_iteration ==
    /\ pc = "fill"
    /\ k <= Len(purposes)
    /\ LET purpose == purposes[k]
       IN  IF purpose \in DOMAIN growth_matrices
              /\ TicketTypes \subseteq DOMAIN growth_matrices[purpose]
           THEN LET cur == current_matrices(growth_matrices, purpose)
                    f_mx == cur["F"]
                    r_mx == cur["R"]
                    s_mx == cur["S"]
                    new_f == filled_f_mx(f_mx, r_mx, s_mx)
                    new_r == filled_r_mx(f_mx, r_mx, s_mx)
                    new_s == filled_s_mx(f_mx, r_mx, s_mx)
                IN  /\ missing_factors' =
                          [missing_factors EXCEPT ![purpose] =
                              [t \in TicketTypes |-> missing_of(cur[t])]]
                    /\ filled_growth_matrices' =
                          [filled_growth_matrices EXCEPT ![purpose] =
                              [t \in TicketTypes |->
                                  IF t = "F" THEN new_f
                                  ELSE IF t = "R" THEN new_r ELSE new_s]]
                    /\ growth_matrices' =
                          input_after_iteration(growth_matrices, purpose,
                                                new_f, new_r, new_s)
                    /\ k' = k + 1
                    /\ pc' = IF k = Len(purposes) THEN "done" ELSE "fill"
           ELSE /\ pc' = "error"
                /\ filled_growth_matrices' = <<>>
                /\ missing_factors' = <<>>
                /\ UNCHANGED <<growth_matrices, k>>
    /\ UNCHANGED <<factors_df, purposes, stn_factors_df, base>>
    /\ UNCHANGED zonal_vars
    /\ UNCHANGED shape_vars
    /\ UNCHANGED frontend_vars

(***************************************************************************)
(* fill_missing_factors on directly supplied matrices                      *)
(***************************************************************************)
\* a matrix set whose cells all hold one value
uniform_matrices(v) ==
    [p \in Purposes |-> [t \in TicketTypes |-> [ij \in Positions |-> Num(v)]]]

\* the cells of gm that differ from the base value
edited_cells(gm, v) ==
    {c \in Purposes \X TicketTypes \X Positions : gm[c[1]][c[2]][c[3]] # Num(v)}

InitFill ==
    /\ pc = "input"
    /\ factors_df = {}
    /\ purposes = <<>>
    /\ stn_factors_df = {}
    /\ base \in Factors
    /\ growth_matrices = uniform_matrices(base)
    /\ k = 0
    /\ filled_growth_matrices = <<>>
    /\ missing_factors = <<>>
    /\ zonal_idle
    /\ shape_idle
    /\ frontend_idle

\* the caller changes one cell of the matrix set before the call
set_cell ==
    /\ pc = "input"
    /\ \E p \in Purposes, t \in TicketTypes, ij \in Positions, v \in Factors :
          LET gm == [growth_matrices EXCEPT ![p][t][ij] = Num(v)]
          IN  /\ gm # growth_matrices
              /\ Cardinality(edited_cells(gm, base)) <= MaxEdits
              /\ growth_matrices' = gm
    /\ UNCHANGED <<pc, factors_df, purposes, stn_factors_df, base, k,
                   filled_growth_matrices, missing_factors>>
    /\ UNCHANGED zonal_vars
    /\ UNCHANGED shape_vars
    /\ UNCHANGED frontend_vars

\* the caller fixes the list of purposes: fill_missing_factors(purposes, growth_matrices)
choose_purposes ==
    /\ pc = "input"
    /\ \E list \in PurposeLists : purposes' = list
    /\ pc' = "prepared"
    /\ UNCHANGED <<factors_df, stn_factors_df, growth_matrices, base, k,
                   filled_growth_matrices, missing_factors>>
    /\ UNCHANGED zonal_vars
    /\ UNCHANGED shape_vars
    /\ UNCHANGED frontend_vars

NextFill == set_cell \/ choose_purposes \/ fill_call \/ fill_iteration

SpecFill == InitFill /\ [][NextFill]_vars


(***************************************************************************)
(* fill_missing_factors on matrix sets with other keys than F, R and S     *)
(***************************************************************************)
\* a ticket type of the growth records that fill_missing_factors does not read
OtherTicketType == "A"

InitKeys == InitFill

\* the matrix set lacks the matrix of one ticket type of one purpose
remove_ticket_type ==
    /\ pc = "input"
    /\ \E p \in Purposes : \E t \in DOMAIN growth_matrices[p] \cap TicketTypes :
          growth_matrices' =
              [growth_matrices EXCEPT ![p] =
                  [u \in DOMAIN growth_matrices[p] \ {t} |-> growth_matrices[p][u]]]
    /\ UNCHANGED <<pc, factors_df, purposes, stn_factors_df, base, k,
                   filled_growth_matrices, missing_factors>>
    /\ UNCHANGED zonal_vars
    /\ UNCHANGED shape_vars
    /\ UNCHANGED frontend_vars

\* the matrix set has a matrix of a further ticket type for one purpose
add_ticket_type ==
    /\ pc = "input"
    /\ \E p \in Purposes, v \in Factors :
          /\ OtherTicketType \notin DOMAIN growth_matrices[p]
          /\ growth_matrices' =
                [growth_matrices EXCEPT ![p] =
                    [u \in DOMAIN growth_matrices[p] \cup {OtherTicketType} |->
                        IF u = OtherTicketType THEN [ij \in Positions |-> Num(v)]
                        ELSE growth_matrices[p][u]]]
    /\ UNCHANGED <<pc, factors_df, purposes, stn_factors_df, base, k,
                   filled_growth_matrices, missing_factors>>
    /\ UNCHANGED zonal_vars
    /\ UNCHANGED shape_vars
    /\ UNCHANGED frontend_vars

NextKeys ==
    remove_ticket_type \/ add_ticket_type \/ choose_purposes \/ fill_call \/ fill_iteration

SpecKeys == InitKeys /\ [][NextKeys]_vars

(***************************************************************************)
(* prepare_growth_matrices followed by fill_missing_factors                *)
(***************************************************************************)
\* a station code that is not in the station lookup
UnknownCode == "XXX"
Codes == {l.STATIONCODE : l \in stations_lookup} \cup {UnknownCode}

\* the station-to-station flows the growth-factor table has rows for
Flows ==
    {<<"LDS", "MAN">>, <<"MAN", "LDS">>, <<"LDS", UnknownCode>>, <<UnknownCode, "MAN">>}

Records ==
    {[ZoneCodeFrom |-> fl[1], ZoneCodeTo |-> fl[2], purpose |-> p,
      TicketType |-> t, Demand_rate |-> Num(v)] :
        fl \in Flows, p \in Purposes, t \in TicketTypes, v \in Factors}

Init ==
    /\ pc = "input"
    /\ factors_df = {}
    /\ purposes = <<>>
    /\ stn_factors_df = {}
    /\ base = 0
    /\ growth_matrices = <<>>
    /\ k = 0
    /\ filled_growth_matrices = <<>>
    /\ missing_factors = <<>>
    /\ zonal_idle
    /\ shape_idle
    /\ frontend_idle

\* one more row of the growth-factor table
add_record ==
    /\ pc = "input"
    /\ Cardinality(factors_df) < MaxRecords
    /\ \E r \in Records : r \notin factors_df /\ factors_df' = factors_df \cup {r}
    /\ UNCHANGED <<pc, purposes, stn_factors_df, growth_matrices, base, k,
                   filled_growth_matrices, missing_factors>>
    /\ UNCHANGED zonal_vars
    /\ UNCHANGED shape_vars
    /\ UNCHANGED frontend_vars

\* the purposes of the demand-segments table, then prepare_growth_matrices
prepare ==
    /\ pc = "input"
    /\ \E list \in PurposeLists :
          /\ purposes' = list
          /\ growth_matrices' =
                prepare_growth_matrices(ListItems(list), factors_df, stations_lookup)
    /\ stn_factors_df' =
          merge_to_stations(stations_lookup, factors_df, "ZoneCodeFrom", "ZoneCodeTo")
    /\ pc' = "prepared"
    /\ UNCHANGED <<factors_df, base, k, filled_growth_matrices, missing_factors>>
    /\ UNCHANGED zonal_vars
    /\ UNCHANGED shape_vars
    /\ UNCHANGED frontend_vars

Next == add_record \/ prepare \/ fill_call \/ fill_iteration

Spec == Init /\ [][Next]_vars


(***************************************************************************)
(* zonal_from_to_stations_demand on bounded inputs                         *)
(***************************************************************************)
Zones == 1 .. ZoneCount
Userclasses == 1 .. MaxUserclass
Proportions == {Rat(n, PropSteps) : n \in 1 .. PropSteps}

DemandRows ==
    {long_row(FALSE, a, b, Num(v)) : a \in Zones, b \in Zones, v \in 1 .. MaxDemand}

\* the station pairs the split-probability table has rows for: two pairs of
\* stations, one pair with the no-record station 0 as origin and one pair whose
\* destination station is missing
StationFlows == {<<1, S>>, <<S, 1>>, <<0, 1>>, <<S, NaNId>>}

PropRows ==
    {[from_model_zone_id |-> a, to_model_zone_id |-> b, userclass |-> uc,
      from_stn_zone_id |-> fl[1], to_stn_zone_id |-> fl[2], proportion |-> pp] :
        a \in Zones, b \in Zones, uc \in Userclasses, fl \in StationFlows,
        pp \in Proportions}

InitZonal ==
    /\ pc = "input"
    /\ growth_idle
    /\ zonal_idle
    /\ shape_idle
    /\ frontend_idle

\* one more row of the zonal demand matrix
add_demand ==
    /\ pc = "input"
    /\ Cardinality(demand_mx) < MaxDemandRows
    /\ \E x \in DemandRows : x \notin demand_mx /\ demand_mx' = demand_mx \cup {x}
    /\ UNCHANGED <<pc, growth_vars, irsj_props, userclass, to_home, missing_props,
                   np_mx, zonal_from_to_stns, logged>>
    /\ UNCHANGED shape_vars
    /\ UNCHANGED frontend_vars

\* one more row of the split-probability table
add_prop ==
    /\ pc = "input"
    /\ Cardinality(irsj_props) < MaxProps
    /\ \E pr \in PropRows : pr \notin irsj_props /\ irsj_props' = irsj_props \cup {pr}
    /\ UNCHANGED <<pc, growth_vars, demand_mx, userclass, to_home, missing_props,
                   np_mx, zonal_from_to_stns, logged>>
    /\ UNCHANGED shape_vars
    /\ UNCHANGED frontend_vars

\* zonal_from_to_stations_demand(demand_mx, irsj_props, stations_count, userclass,
\* to_home): line 375 returns np_mx and zonal_from_to_stns, nothing else
zonal_call ==
    /\ pc = "input"
    /\ \E uc \in Userclasses, home \in BOOLEAN :
          LET joined == merge_props(oriented_demand(SetToBag(demand_mx), uc, home),
                                    irsj_props)
              frame == zonal_frame(SetToBag(demand_mx), irsj_props, uc, home)
          IN  /\ userclass' = uc
              /\ to_home' = home
              /\ missing_props' = find_missing_props(joined)
              /\ zonal_from_to_stns' = lookup_table(frame)
              /\ np_mx' = station_matrix(frame, S)
              /\ logged' = logged \o log_records(find_missing_props(joined))
    /\ pc' = "returned"
    /\ UNCHANGED <<growth_vars, demand_mx, irsj_props>>
    /\ UNCHANGED shape_vars
    /\ UNCHANGED frontend_vars

NextZonal == add_demand \/ add_prop \/ zonal_call

SpecZonal == InitZonal /\ [][NextZonal]_vars

(***************************************************************************)
(* The matrix conversions of utils on bounded long tables                  *)
(***************************************************************************)
\* identifiers of the rows of a table: the grid 1..ZoneCount and one beyond it
ShapeIds == 1 .. ZoneCount + 1

ShapeRows(stations) ==
    {long_row(stations, a, b, Num(v)) :
        a \in ShapeIds, b \in ShapeIds, v \in 0 .. MaxDemand}

InitShape ==
    /\ pc = "input"
    /\ growth_idle
    /\ zonal_idle
    /\ frontend_idle
    /\ mx_in = <<>>
    /\ mx_df = <<>>
    /\ columns_in \in {od_cols(TRUE) \o <<"Demand">>, od_cols(FALSE) \o <<"Demand">>}
    /\ columns = columns_in
    /\ wide_mx = <<>>
    /\ ops = <<>>

\* one more row of the long table
shape_add_row ==
    /\ pc = "input"
    /\ Cardinality(DOMAIN mx_in) < MaxDemandRows
    /\ \E x \in ShapeRows(is_stations(columns_in)) :
          /\ x \notin DOMAIN mx_in
          /\ mx_in' = mx_in (+) SetToBag({x})
          /\ mx_df' = mx_in'
    /\ UNCHANGED <<pc, growth_vars, zonal_vars, frontend_vars, columns_in, columns, wide_mx, ops>>

\* the orders the conversions are applied in: the input expanded (once or twice)
\* or not, then pivoted, then melted back; or the input transposed once or twice,
\* or transposed and pivoted

\* mx_df = expand_matrix(mx_df, zones, stations), stations as the table's columns
shape_expand ==
    /\ ops \in {<<>>, <<"expand">>}
    /\ mx_df' = expand_matrix(mx_df, ZoneCount, is_stations(columns))
    /\ columns' = expand_columns(columns, is_stations(columns))
    /\ ops' = Append(ops, "expand")
    /\ pc' = "shape"
    /\ UNCHANGED <<growth_vars, zonal_vars, frontend_vars, mx_in, columns_in, wide_mx>>

\* wide_mx = long_mx_2_wide_mx(mx_df) on a table that has rows; the function
\* has no raise and no check of its own
shape_to_wide ==
    /\ \/ ops \in {<<>>, <<"expand">>, <<"expand", "expand">>}
       \/ ops \in {<<"transpose_stations">>, <<"transpose_zones">>}
    /\ DOMAIN mx_df # {}
    /\ wide_mx' = long_mx_2_wide_mx(by_position(mx_df, columns))
    /\ ops' = Append(ops, "to_wide")
    /\ pc' = "shape"
    /\ UNCHANGED <<growth_vars, zonal_vars, frontend_vars, mx_in, columns_in, mx_df, columns>>

\* mx_df = wide_mx_2_long_mx(wide_mx) with the default column names
shape_to_long ==
    /\ ops # <<>> /\ ops[Len(ops)] = "to_wide"
    /\ ops[1] \in {"expand", "to_wide"}
    /\ mx_df' = wide_mx_2_long_mx(wide_mx)
    /\ columns' = long_columns
    /\ ops' = Append(ops, "to_long")
    /\ pc' = "shape"
    /\ UNCHANGED <<growth_vars, zonal_vars, frontend_vars, mx_in, columns_in, wide_mx>>

\* mx_df = transpose_matrix(mx_df, stations) for either value of the flag
shape_transpose ==
    /\ ops \in {<<>>, <<"transpose_stations">>, <<"transpose_zones">>}
    /\ \E stations \in BOOLEAN :
          /\ mx_df' = transpose_matrix(mx_df, stations)
          /\ columns' = transpose_columns(columns, stations)
          /\ ops' = Append(ops, IF stations THEN "transpose_stations"
                                 ELSE "transpose_zones")
    /\ pc' = "shape"
    /\ UNCHANGED <<growth_vars, zonal_vars, frontend_vars, mx_in, columns_in, wide_mx>>

NextShape ==
    shape_add_row \/ shape_expand \/ shape_to_wide \/ shape_to_long \/ shape_transpose

SpecShape == InitShape /\ [][NextShape]_vars

(***************************************************************************)
(* production_trip_ends of post_me_adjustment.py                           *)
(***************************************************************************)
\* the zone labels of an axis of a matrix file: distinct labels, in file order
LabelLists ==
    UNION {{l \in [1 .. n -> 1 .. MaxLabel] : \A a \in 1 .. n, b \in 1 .. n :
                                                 l[a] = l[b] => a = b} :
              n \in 1 .. MaxZones}

\* the data frames _read_matrix can return (lines 194-200): index labels, column
\* labels and one value per cell
Matrices ==
    UNION {{[index |-> i, columns |-> c, values |-> v] :
                v \in [(1 .. Len(i)) \X (1 .. Len(c)) -> 0 .. MaxCell]} :
              <<i, c>> \in LabelLists \X LabelLists}

\* DataFrame.shape
shape(mat) == <<Len(mat.index), Len(mat.columns)>>

\* a != b of two pandas indexes of one length: the elementwise comparison
index_ne(a, b) == [n \in 1 .. Len(a) |-> a[n] # b[n]]

\* ndarray.all()
np_all(arr) == \A n \in DOMAIN arr : arr[n]

\* mat.sum(axis=1): for every index label the sum of the cells of its row
row_sums(mat) ==
    [n \in 1 .. Len(mat.index) |->
        [label |-> mat.index[n],
         sum |-> SumNat([j \in 1 .. Len(mat.columns) |-> mat.values[<<n, j>>]],
                        1 .. Len(mat.columns))]]

InitTripEnds ==
    /\ pc = "input"
    /\ growth_idle
    /\ zonal_idle
    /\ shape_idle
    /\ iter_idle /\ notem_idle /\ nhb_idle
    /\ prior \in Matrices
    /\ post \in Matrices
    /\ productions = <<>>

\* production_trip_ends(prior_path, post_path), lines 227-240
production_trip_ends ==
    /\ pc = "input"
    /\ IF shape(prior) # shape(post)
       THEN pc' = "ValueError" /\ UNCHANGED productions
       ELSE IF np_all(index_ne(prior.index, post.index))
       THEN pc' = "ValueError" /\ UNCHANGED productions
       ELSE IF np_all(index_ne(prior.columns, post.columns))
       THEN pc' = "ValueError" /\ UNCHANGED productions
       ELSE /\ productions' = <<row_sums(prior), row_sums(post)>>
            /\ pc' = "returned"
    /\ UNCHANGED <<prior, post>>
    /\ UNCHANGED <<growth_vars, zonal_vars, shape_vars, iter_vars, notem_vars, nhb_vars>>

NextTripEnds == production_trip_ends

SpecTripEnds == InitTripEnds /\ [][NextTripEnds]_vars

(***************************************************************************)
(* iter_od_matrices of post_me_adjustment.py                               *)
(***************************************************************************)
\* line 173: the accepted suffixes, in order; a suffix is the list of its
\* dot-separated parts, ".csv.bz2" being the parts ".csv" and ".bz2"
suffixes == << <<".csv">>, <<".csv", ".bz2">>, <<".pbz2">> >>

\* str.lower() on a suffix part
lower(part) == IF part = ".CSV" THEN ".csv" ELSE part

\* Path.suffix: the last part of the name's suffixes, or nothing
path_suffix(entry) ==
    IF entry.suffixes = <<>> THEN <<>>
    ELSE <<entry.suffixes[Len(entry.suffixes)]>>

\* the matrix formats a file name can parse to
MatrixFormats == {"od_from", "od_to"}

\* the entries a prior folder can hold: a name is "synthetic_" or nothing, a
\* stem that parses to a matrix format, and the suffix parts; it is a file or a
\* directory
PriorEntries ==
    {[synthetic |-> syn, matrix_format |-> f, suffixes |-> sx, is_dir |-> dir] :
        syn \in BOOLEAN, f \in MatrixFormats, dir \in BOOLEAN,
        sx \in {<<".csv">>, <<".CSV">>, <<".csv", ".bz2">>, <<".pbz2">>, <<".txt">>}}

\* the files a post ME folder can hold
PostFiles ==
    {[synthetic |-> FALSE, matrix_format |-> f, suffixes |-> sx] :
        f \in MatrixFormats, sx \in {suffixes[n] : n \in DOMAIN suffixes}}

\* lines 177-178: the name without all its suffixes and without "synthetic_"
stem_of(entry) == [synthetic |-> FALSE, matrix_format |-> entry.matrix_format]

\* line 181: general.fname_to_calib_params(stem, True, True)
fname_to_calib_params(stem) == [matrix_format |-> stem.matrix_format]

\* line 186: post_folder / (stem + suff)
post_path(stem, suff) ==
    [synthetic |-> stem.synthetic, matrix_format |-> stem.matrix_format,
     suffixes |-> suff]

\* lines 185-192: the positions of suffixes whose post file exists
existing_posts(stem, folder) ==
    {n \in DOMAIN suffixes : post_path(stem, suffixes[n]) \in folder}

\* the least position of a non-empty set of positions
first_of(ns) == CHOOSE n \in ns : \A m \in ns : n <= m

InitIter ==
    /\ pc = "input"
    /\ growth_idle
    /\ zonal_idle
    /\ shape_idle
    /\ tripend_idle /\ iter_idle /\ notem_idle /\ nhb_idle

\* one more entry in the prior folder
add_prior ==
    /\ pc = "input"
    /\ Cardinality(prior_folder) < MaxFiles
    /\ \E e \in PriorEntries : e \notin prior_folder /\ prior_folder' = prior_folder \cup {e}
    /\ UNCHANGED <<pc, post_folder, remaining, yielded, warnings>>
    /\ UNCHANGED <<growth_vars, zonal_vars, shape_vars, tripend_vars, notem_vars, nhb_vars>>

\* one more file in the post ME folder
add_post ==
    /\ pc = "input"
    /\ Cardinality(post_folder) < MaxFiles
    /\ \E e \in PostFiles : e \notin post_folder /\ post_folder' = post_folder \cup {e}
    /\ UNCHANGED <<pc, prior_folder, remaining, yielded, warnings>>
    /\ UNCHANGED <<growth_vars, zonal_vars, shape_vars, tripend_vars, notem_vars, nhb_vars>>

\* iter_od_matrices(prior_folder, post_folder): line 174 starts iterdir()
iter_call ==
    /\ pc = "input"
    /\ pc' = "iterating"
    /\ remaining' = prior_folder
    /\ UNCHANGED <<prior_folder, post_folder, yielded, warnings>>
    /\ UNCHANGED <<growth_vars, zonal_vars, shape_vars, tripend_vars, notem_vars, nhb_vars>>

\* lines 174-192: the body of the loop for the next entry of iterdir(), which
\* produces the entries in no particular order
iter_entry ==
    /\ pc = "iterating"
    /\ \E entry \in remaining :
          LET stem == stem_of(entry)
              params == fname_to_calib_params(stem)
              found == existing_posts(stem, post_folder)
          IN  /\ remaining' = remaining \ {entry}
              /\ IF entry.is_dir
                    \/ [n \in DOMAIN path_suffix(entry) |-> lower(path_suffix(entry)[n])]
                          \notin {suffixes[n] : n \in DOMAIN suffixes}
                 THEN UNCHANGED <<yielded, warnings>>
                 ELSE IF params.matrix_format # "od_from"
                 THEN UNCHANGED <<yielded, warnings>>
                 ELSE IF found # {}
                 THEN /\ yielded' =
                            Append(yielded,
                                   [prior |-> entry,
                                    post |-> post_path(stem, suffixes[first_of(found)]),
                                    params |-> params])
                      /\ UNCHANGED warnings
                 ELSE /\ warnings' = warnings \cup {entry}
                      /\ UNCHANGED yielded
    /\ UNCHANGED <<pc, prior_folder, post_folder>>
    /\ UNCHANGED <<growth_vars, zonal_vars, shape_vars, tripend_vars, notem_vars, nhb_vars>>

\* iterdir() is exhausted and the generator ends
iter_exhausted ==
    /\ pc = "iterating"
    /\ remaining = {}
    /\ pc' = "exhausted"
    /\ UNCHANGED <<prior_folder, post_folder, remaining, yielded, warnings>>
    /\ UNCHANGED <<growth_vars, zonal_vars, shape_vars, tripend_vars, notem_vars, nhb_vars>>

NextIter == add_prior \/ add_post \/ iter_call \/ iter_entry \/ iter_exhausted

SpecIter == InitIter /\ [][NextIter]_vars

(***************************************************************************)
(* NoTEM.run of notem.py                                                   *)
(***************************************************************************)
\* the flags of NoTEM.run (lines 141-147)
FlagNames ==
    {"generate_all", "generate_hb", "generate_hb_production", "generate_hb_attraction",
     "generate_nhb", "generate_nhb_production", "generate_nhb_attraction"}

FlagArgs == [FlagNames -> BOOLEAN]

\* the order in which the statements of lines 209-219 stand
run_order_nhb_production_early ==
    <<"hb_production", "nhb_production", "hb_attraction", "nhb_attraction">>

\* lines 209-219: the four models in the order of the if statements
run_order == <<"hb_production", "hb_attraction", "nhb_production", "nhb_attraction">>

TripEndModels == {"hb_production", "hb_attraction", "nhb_production", "nhb_attraction"}

\* generate_all switching on the home based flag only
expanded_flags_all_as_hb(args) ==
    LET hb == args["generate_hb"] \/ args["generate_all"]
        nhb == args["generate_nhb"]
    IN  [m \in TripEndModels |->
            IF m = "hb_production" THEN args["generate_hb_production"] \/ hb
            ELSE IF m = "hb_attraction" THEN args["generate_hb_attraction"] \/ hb
            ELSE IF m = "nhb_production" THEN args["generate_nhb_production"] \/ nhb
            ELSE args["generate_nhb_attraction"] \/ nhb]

\* lines 190-200: the four single-model flags after the three if statements
expanded_flags(args) ==
    LET hb == args["generate_hb"] \/ args["generate_all"]
        nhb == args["generate_nhb"] \/ args["generate_all"]
    IN  [m \in TripEndModels |->
            IF m = "hb_production" THEN args["generate_hb_production"] \/ hb
            ELSE IF m = "hb_attraction" THEN args["generate_hb_attraction"] \/ hb
            ELSE IF m = "nhb_production" THEN args["generate_nhb_production"] \/ nhb
            ELSE args["generate_nhb_attraction"] \/ nhb]

\* the models whose exported notem segmented vectors a model is given the paths
\* of: lines 258-259, 287-288 and 316-321
reads(m) ==
    IF m = "hb_attraction" THEN {"hb_production"}
    ELSE IF m = "nhb_production" THEN {"hb_attraction"}
    ELSE IF m = "nhb_attraction" THEN {"hb_attraction", "nhb_production"}
    ELSE {}

InitRun ==
    /\ pc = "input"
    /\ growth_idle
    /\ zonal_idle
    /\ shape_idle
    /\ tripend_idle /\ iter_idle /\ notem_idle /\ nhb_idle

\* NoTEM.run(...) is called: lines 186-206
run_call ==
    /\ pc = "input"
    /\ \E args \in FlagArgs :
          /\ run_args' = args
          /\ generate' = expanded_flags(args)
    /\ step' = 1
    /\ pc' = "run"
    /\ UNCHANGED <<running, started, completed>>
    /\ UNCHANGED <<growth_vars, zonal_vars, shape_vars, tripend_vars, iter_vars, nhb_vars>>

\* an if statement of lines 209-219 whose flag is set: the _generate_ method is
\* entered, it instantiates the model and calls its run
generate_start ==
    /\ pc = "run"
    /\ step <= Len(run_order)
    /\ running = "none"
    /\ generate[run_order[step]]
    /\ running' = run_order[step]
    /\ started' = Append(started, run_order[step])
    /\ UNCHANGED <<pc, run_args, generate, step, completed>>
    /\ UNCHANGED <<growth_vars, zonal_vars, shape_vars, tripend_vars, iter_vars, nhb_vars>>

\* the run of the model and the _generate_ method return
generate_return ==
    /\ pc = "run"
    /\ running # "none"
    /\ completed' = Append(completed, running)
    /\ running' = "none"
    /\ step' = step + 1
    /\ UNCHANGED <<pc, run_args, generate, started>>
    /\ UNCHANGED <<growth_vars, zonal_vars, shape_vars, tripend_vars, iter_vars, nhb_vars>>

\* an if statement of lines 209-219 whose flag is not set
generate_skip ==
    /\ pc = "run"
    /\ step <= Len(run_order)
    /\ running = "none"
    /\ ~generate[run_order[step]]
    /\ step' = step + 1
    /\ UNCHANGED <<pc, run_args, generate, running, started, completed>>
    /\ UNCHANGED <<growth_vars, zonal_vars, shape_vars, tripend_vars, iter_vars, nhb_vars>>

\* lines 221-223: NoTEM.run returns
run_return ==
    /\ pc = "run"
    /\ step > Len(run_order)
    /\ pc' = "returned"
    /\ UNCHANGED notem_vars
    /\ UNCHANGED <<growth_vars, zonal_vars, shape_vars, tripend_vars, iter_vars, nhb_vars>>

NextRun == run_call \/ generate_start \/ generate_return \/ generate_skip \/ run_return

SpecRun == InitRun /\ [][NextRun]_vars

(***************************************************************************)
(* NHBProductionModel.__init__ of notem_production_model.py                *)
(***************************************************************************)
Years == 1 .. MaxYears

\* the key lists a dictionary of years can have: distinct years, in key order
YearLists ==
    UNION {{l \in [1 .. n -> Years] : \A a \in 1 .. n, b \in 1 .. n : l[a] = l[b] => a = b} :
              n \in 0 .. MaxYears}

\* the keys of a dictionary given by its key list
keys(list) == {list[n] : n \in DOMAIN list}

\* the positions of land_use_paths whose year passes the first check of the
\* loop but is compared with nothing else
uncovered_attractions_only(land_use, attractions, constraints) ==
    {n \in DOMAIN land_use : land_use[n] \notin attractions}

\* lines 676-690: the positions of land_use_paths whose year makes the loop raise
uncovered(land_use, attractions, constraints) ==
    {n \in DOMAIN land_use :
        \/ land_use[n] \notin attractions
        \/ constraints.given /\ land_use[n] \notin constraints.years}

\* lines 708-714: the report folder and the output and report paths of a year
created_for(years) ==
    {[kind |-> "report_folder", year |-> 0]}
        \cup {[kind |-> kd, year |-> y] :
                 kd \in {"output_paths", "pure_demand_report_paths",
                         "notem_segmented_report_paths"}, y \in keys(years)}

\* the arguments of a call of the constructor; every path of the arguments exists
InitNHB ==
    /\ pc = "input"
    /\ growth_idle
    /\ zonal_idle
    /\ shape_idle
    /\ tripend_idle /\ iter_idle /\ notem_idle
    /\ hb_attractions \in SUBSET Years
    /\ land_use_paths \in YearLists
    /\ constraint_paths \in {None} \cup {[given |-> TRUE, years |-> ys] : ys \in SUBSET Years}
    /\ self_attrs = <<>>
    /\ created = {}

\* NHBProductionModel(hb_attractions, land_use_paths, ..., constraint_paths),
\* lines 668-714
nhb_init ==
    /\ pc = "input"
    /\ IF uncovered(land_use_paths, hb_attractions, constraint_paths) # {}
       THEN /\ pc' = "ValueError"
            /\ UNCHANGED <<self_attrs, created>>
       ELSE /\ self_attrs' = [hb_attractions |-> hb_attractions,
                              land_use_paths |-> land_use_paths,
                              constraint_paths |-> constraint_paths,
                              years |-> land_use_paths]
            /\ created' = created_for(land_use_paths)
            /\ pc' = "constructed"
    /\ UNCHANGED <<hb_attractions, land_use_paths, constraint_paths>>
    /\ UNCHANGED <<growth_vars, zonal_vars, shape_vars, tripend_vars, iter_vars, notem_vars>>

NextNHB == nhb_init

SpecNHB == InitNHB /\ [][NextNHB]_vars

(***************************************************************************)
(* Properties of fill_missing_factors                                      *)
(***************************************************************************)
\* the purposes whose loop iteration has completed
Processed == IF pc \in {"fill", "done"} THEN {purposes[n] : n \in 1 .. k - 1} ELSE {}

\* C1: for every purpose and every cell, the filled Full value is the original
\* Full value if it is non-zero, otherwise the original Reduced value if that is
\* non-zero, otherwise the original Season value if that is non-zero, otherwise 1.
C1_FullHierarchy ==
    \A p \in Processed : \A ij \in DOMAIN growth_matrices[p]["F"] :
        LET f == growth_matrices[p]["F"][ij]
            r == growth_matrices[p]["R"][ij]
            s == growth_matrices[p]["S"][ij]
        IN  filled_growth_matrices[p]["F"][ij] =
                IF f # Zero THEN f ELSE IF r # Zero THEN r
                ELSE IF s # Zero THEN s ELSE One

\* a returned Full cell that was zero and took the Reduced value although
\* Season held another non-zero value
C1_Witness ==
    /\ pc = "done"
    /\ \E p \in Processed : \E ij \in Positions :
          /\ growth_matrices[p]["F"][ij] = Zero
          /\ growth_matrices[p]["R"][ij] # Zero
          /\ growth_matrices[p]["S"][ij] # Zero
          /\ growth_matrices[p]["R"][ij] # growth_matrices[p]["S"][ij]
          /\ filled_growth_matrices[p]["F"][ij] = growth_matrices[p]["R"][ij]

\* C2: for every purpose and every cell, the filled Reduced value is the original
\* Reduced value if non-zero, otherwise the original Full value if non-zero,
\* otherwise the original Season value if non-zero, otherwise 1.
C2_ReducedHierarchy ==
    \A p \in Processed : \A ij \in DOMAIN growth_matrices[p]["R"] :
        LET f == growth_matrices[p]["F"][ij]
            r == growth_matrices[p]["R"][ij]
            s == growth_matrices[p]["S"][ij]
        IN  filled_growth_matrices[p]["R"][ij] =
                IF r # Zero THEN r ELSE IF f # Zero THEN f
                ELSE IF s # Zero THEN s ELSE One

\* a returned Reduced cell that was zero and took the Full value although
\* Season held another non-zero value
C2_Witness ==
    /\ pc = "done"
    /\ \E p \in Processed : \E ij \in Positions :
          /\ growth_matrices[p]["R"][ij] = Zero
          /\ growth_matrices[p]["F"][ij] # Zero
          /\ growth_matrices[p]["S"][ij] # Zero
          /\ growth_matrices[p]["F"][ij] # growth_matrices[p]["S"][ij]
          /\ filled_growth_matrices[p]["R"][ij] = growth_matrices[p]["F"][ij]

\* C3: for every purpose and every cell, the filled Season value is the original
\* Season value if non-zero, otherwise the original Reduced value if non-zero,
\* otherwise the original Full value if non-zero, otherwise 1.
C3_SeasonHierarchy ==
    \A p \in Processed : \A ij \in DOMAIN growth_matrices[p]["S"] :
        LET f == growth_matrices[p]["F"][ij]
            r == growth_matrices[p]["R"][ij]
            s == growth_matrices[p]["S"][ij]
        IN  filled_growth_matrices[p]["S"][ij] =
                IF s # Zero THEN s ELSE IF r # Zero THEN r
                ELSE IF f # Zero THEN f ELSE One

\* a returned Season cell that was zero and took the Reduced value although
\* Full held another non-zero value
C3_Witness ==
    /\ pc = "done"
    /\ \E p \in Processed : \E ij \in Positions :
          /\ growth_matrices[p]["S"][ij] = Zero
          /\ growth_matrices[p]["R"][ij] # Zero
          /\ growth_matrices[p]["F"][ij] # Zero
          /\ growth_matrices[p]["R"][ij] # growth_matrices[p]["F"][ij]
          /\ filled_growth_matrices[p]["S"][ij] = growth_matrices[p]["R"][ij]

\* C4: in the returned set, for every listed purpose and each ticket type F, R, S,
\* the filled matrix has the shape of its input and none of its cells is zero.
C4_NoZeroAfterFill ==
    pc = "done" =>
        \A p \in ListItems(purposes) : \A t \in TicketTypes :
            /\ DOMAIN filled_growth_matrices[p][t] = DOMAIN growth_matrices[p][t]
            /\ \A ij \in DOMAIN filled_growth_matrices[p][t] :
                  filled_growth_matrices[p][t][ij] # Zero

\* a returned purpose with a cell that was zero in all three ticket types
C4_Witness ==
    /\ pc = "done"
    /\ \E p \in ListItems(purposes) : \E ij \in Positions :
          /\ \A t \in TicketTypes : growth_matrices[p][t][ij] = Zero
          /\ \A t \in TicketTypes : filled_growth_matrices[p][t][ij] = One

\* C5: the report holds, for every listed purpose and ticket type, exactly the
\* (row, col) positions that are zero in the original matrix of that purpose and
\* ticket type, whatever they were filled with.
C5_MissingReportExact ==
    \A p \in Processed : \A t \in TicketTypes :
        /\ missing_factors[p][t] \subseteq DOMAIN growth_matrices[p][t]
        /\ \A ij \in DOMAIN growth_matrices[p][t] :
              (ij \in missing_factors[p][t]) <=> (growth_matrices[p][t][ij] = Zero)

\* a report that lists (0, 1) but not (1, 0), one reported cell filled from another
\* ticket type and one filled with 1
C5_Witness ==
    /\ pc = "done"
    /\ \E p \in Processed : \E t \in TicketTypes :
          /\ <<0, 1>> \in missing_factors[p][t]
          /\ <<1, 0>> \notin missing_factors[p][t]
          /\ filled_growth_matrices[p][t][<<0, 1>>] # One
          /\ \E ij \in missing_factors[p][t] : filled_growth_matrices[p][t][ij] = One

\* C6: if none of the F, R and S matrices of a purpose has a zero cell, each
\* filled matrix equals the corresponding input matrix cell for cell.
C6_ZeroFreeIdentity ==
    \A p \in Processed :
        (\A t \in TicketTypes : \A ij \in DOMAIN growth_matrices[p][t] :
            growth_matrices[p][t][ij] # Zero)
        => \A t \in TicketTypes :
              filled_growth_matrices[p][t] = growth_matrices[p][t]

\* a returned purpose without a zero cell whose three matrices are not all equal
C6_Witness ==
    /\ pc = "done"
    /\ \E p \in Processed :
          /\ \A t \in TicketTypes : \A ij \in Positions : growth_matrices[p][t][ij] # Zero
          /\ growth_matrices[p]["F"] # growth_matrices[p]["R"]
          /\ growth_matrices[p]["R"] # growth_matrices[p]["S"]
          /\ filled_growth_matrices[p]["R"] = growth_matrices[p]["R"]

\* C7: from the call to the return of fill_missing_factors, no step changes a cell
\* of the growth_matrices argument.
C7_InputUnchanged ==
    [][(pc \in {"prepared", "fill"}) => (growth_matrices' = growth_matrices)]_vars

\* a returned set in which a cell was filled while the argument still holds its zero
C7_Witness ==
    /\ pc = "done"
    /\ \E p \in Processed : \E t \in TicketTypes : \E ij \in Positions :
          /\ growth_matrices[p][t][ij] = Zero
          /\ filled_growth_matrices[p][t][ij] # Zero


\* C9: whatever the order in which the purposes are processed, the filled
\* matrices and the report of a processed purpose are the fallback function of that
\* purpose's own three original matrices (F: F,R,S; R: R,F,S; S: S,R,F; then 1),
\* and a later step changes neither the results nor the input of a processed purpose.
C9_OrderIndependent ==
    /\ [](\A p \in Processed : \A t \in TicketTypes :
            LET order == IF t = "F" THEN <<"F", "R", "S">>
                         ELSE IF t = "R" THEN <<"R", "F", "S">>
                         ELSE <<"S", "R", "F">>
                own == growth_matrices[p]
            IN  /\ missing_factors[p][t] = {ij \in DOMAIN own[t] : own[t][ij] = Zero}
                /\ filled_growth_matrices[p][t] =
                      [ij \in DOMAIN own[t] |->
                          LET nz == {n \in 1 .. 3 : own[order[n]][ij] # Zero}
                          IN  IF nz = {} THEN One
                              ELSE own[order[CHOOSE n \in nz : \A m \in nz : n <= m]][ij]])
    /\ [][\A p \in Processed :
            pc' # "error" =>
                /\ filled_growth_matrices'[p] = filled_growth_matrices[p]
                /\ missing_factors'[p] = missing_factors[p]
                /\ growth_matrices'[p] = growth_matrices[p]]_vars

\* both purposes processed, the second one on matrices that differ from the first
\* one's, with a cell it borrowed from another ticket type
C9_Witness ==
    /\ pc = "done"
    /\ Len(purposes) = 2
    /\ growth_matrices[purposes[1]] # growth_matrices[purposes[2]]
    /\ filled_growth_matrices[purposes[1]] # filled_growth_matrices[purposes[2]]
    /\ \E t \in TicketTypes : \E ij \in Positions :
          /\ growth_matrices[purposes[2]][t][ij] = Zero
          /\ filled_growth_matrices[purposes[2]][t][ij] \notin {Zero, One}


(***************************************************************************)
(* Properties of prepare_growth_matrices followed by fill_missing_factors  *)
(***************************************************************************)
\* C8 as stated: once the run has ended, for every purpose of the demand segments
\* and every pair of stations of the lookup for which the Full records all carry
\* one non-zero factor v and the Reduced and Season records are absent or zero,
\* the filled Full, Reduced and Season matrices are returned and hold v at that pair.
C8_OnlyFullSupplied ==
    pc \in {"done", "error"} =>
        \A p \in ListItems(purposes) : \A a \in stations_lookup, b \in stations_lookup :
            LET of_type(t) == {r \in factors_df :
                                  /\ r.purpose = p /\ r.TicketType = t
                                  /\ r.ZoneCodeFrom = a.STATIONCODE
                                  /\ r.ZoneCodeTo = b.STATIONCODE}
                cell == <<a.stn_zone_id - 1, b.stn_zone_id - 1>>
            IN  \A full \in of_type("F") :
                    ( /\ of_type("F") = {full}
                      /\ full.Demand_rate # Zero
                      /\ \A r \in of_type("R") \cup of_type("S") : r.Demand_rate = Zero )
                    => /\ pc = "done"
                       /\ \A t \in TicketTypes :
                             filled_growth_matrices[p][t][cell] = full.Demand_rate

\* C8 amended: the same, provided each of the ticket types R and S is the ticket
\* type of at least one growth record (of any purpose and any station pair).
C8_OnlyFullSuppliedAllTypesPresent ==
    pc \in {"done", "error"} =>
        \A p \in ListItems(purposes) : \A a \in stations_lookup, b \in stations_lookup :
            LET of_type(t) == {r \in factors_df :
                                  /\ r.purpose = p /\ r.TicketType = t
                                  /\ r.ZoneCodeFrom = a.STATIONCODE
                                  /\ r.ZoneCodeTo = b.STATIONCODE}
                cell == <<a.stn_zone_id - 1, b.stn_zone_id - 1>>
            IN  \A full \in of_type("F") :
                    ( /\ of_type("F") = {full}
                      /\ full.Demand_rate # Zero
                      /\ \A r \in of_type("R") \cup of_type("S") : r.Demand_rate = Zero
                      /\ \A t \in {"R", "S"} : \E r \in factors_df : r.TicketType = t )
                    => /\ pc = "done"
                       /\ \A t \in TicketTypes :
                             filled_growth_matrices[p][t][cell] = full.Demand_rate

\* a returned run with one non-zero Full record for a station pair, a zero Reduced
\* record for the same pair and a Season record only elsewhere: all three filled
\* matrices hold the Full factor at the pair
C8_Witness ==
    /\ pc = "done"
    /\ \E p \in ListItems(purposes) : \E full \in factors_df, red \in factors_df :
          /\ full.purpose = p /\ full.TicketType = "F" /\ full.Demand_rate # Zero
          /\ red.purpose = p /\ red.TicketType = "R" /\ red.Demand_rate = Zero
          /\ red.ZoneCodeFrom = full.ZoneCodeFrom /\ red.ZoneCodeTo = full.ZoneCodeTo
          /\ \E a \in stations_lookup, b \in stations_lookup :
                /\ a.STATIONCODE = full.ZoneCodeFrom /\ b.STATIONCODE = full.ZoneCodeTo
                /\ \A t \in TicketTypes :
                      /\ growth_matrices[p][t][<<a.stn_zone_id - 1, b.stn_zone_id - 1>>]
                            = IF t = "F" THEN full.Demand_rate ELSE Zero
                      /\ filled_growth_matrices[p][t][<<a.stn_zone_id - 1, b.stn_zone_id - 1>>]
                            = full.Demand_rate


\* the ticket types present in the growth records (line 52)
ticket_types == {r.TicketType : r \in factors_df}

\* the growth records of one purpose and ticket type
records_of(p, t) == {r \in factors_df : r.purpose = p /\ r.TicketType = t}

\* the station codes of the lookup
known_codes == {l.STATIONCODE : l \in stations_lookup}

\* the stn_zone_id of a station code of the lookup
zone_id_of(code) == (CHOOSE l \in stations_lookup : l.STATIONCODE = code).stn_zone_id

\* C16: once prepare_growth_matrices has returned, its result has exactly the
\* purposes of the demand segments as keys and, under each purpose, exactly the
\* ticket types present in the growth records, and every matrix is S x S.
C16_KeysAndShape ==
    pc = "prepared" =>
        /\ DOMAIN growth_matrices = ListItems(purposes)
        /\ \A p \in ListItems(purposes) :
              /\ DOMAIN growth_matrices[p] = ticket_types
              /\ \A t \in ticket_types :
                    DOMAIN growth_matrices[p][t] = (0 .. S - 1) \X (0 .. S - 1)

\* two purposes and at least two ticket types, one of them only in a record with a
\* code outside the lookup, and a matrix with a non-zero cell
C16_Witness ==
    /\ pc = "prepared"
    /\ Len(purposes) = 2
    /\ Cardinality(ticket_types) >= 2
    /\ \E t \in ticket_types :
          \A r \in factors_df :
              r.TicketType = t => UnknownCode \in {r.ZoneCodeFrom, r.ZoneCodeTo}
    /\ \E p \in ListItems(purposes), t \in ticket_types, ij \in Positions :
          growth_matrices[p][t][ij] # Zero

\* C17: a (purpose, ticket type) combination of the result for which the growth
\* records hold no row has an S x S matrix of zeros, and the matrix of every
\* other combination holds, at each station pair, the mean of the factors its own
\* records give for that pair, 0 where it has none.
C17_AbsentCombinationZero ==
    pc = "prepared" =>
        \A p \in ListItems(purposes) : \A t \in ticket_types :
            IF records_of(p, t) = {}
            THEN growth_matrices[p][t] = [ij \in Positions |-> Zero]
            ELSE /\ DOMAIN growth_matrices[p][t] = Positions
                 /\ \A a \in stations_lookup, b \in stations_lookup :
                       LET own == {r \in records_of(p, t) :
                                      /\ r.ZoneCodeFrom = a.STATIONCODE
                                      /\ r.ZoneCodeTo = b.STATIONCODE}
                       IN  growth_matrices[p][t][<<a.stn_zone_id - 1, b.stn_zone_id - 1>>] =
                               IF own = {} THEN Zero
                               ELSE RDiv(SumRat([r \in own |-> r.Demand_rate], own),
                                         Num(Cardinality(own)))

\* a purpose without a record for a ticket type that another purpose has a
\* non-zero record for: a zero matrix beside a matrix with a non-zero cell
C17_Witness ==
    /\ pc = "prepared"
    /\ \E p \in ListItems(purposes), q \in ListItems(purposes), t \in ticket_types :
          /\ records_of(p, t) = {}
          /\ growth_matrices[p][t] = [ij \in Positions |-> Zero]
          /\ records_of(q, t) # {}
          /\ \E ij \in Positions : growth_matrices[q][t][ij] # Zero

\* C18: the table merge_to_stations returns holds exactly the growth records whose
\* origin and destination codes are both in the station lookup, each with the
\* lookup identifiers of its two codes; a record with a code outside the lookup
\* is dropped and the matrices returned are those the records with
\* known codes alone produce (a ticket type left without such a record has zero
\* matrices).
C18_UnknownCodesDropped ==
    pc = "prepared" =>
        LET kept == {r \in factors_df :
                        r.ZoneCodeFrom \in known_codes /\ r.ZoneCodeTo \in known_codes}
            alone == prepare_growth_matrices(ListItems(purposes), kept, stations_lookup)
        IN  /\ stn_factors_df =
                  {[ZoneCodeFrom |-> r.ZoneCodeFrom, ZoneCodeTo |-> r.ZoneCodeTo,
                    purpose |-> r.purpose, TicketType |-> r.TicketType,
                    Demand |-> r.Demand_rate,
                    from_stn_zone_id |-> zone_id_of(r.ZoneCodeFrom),
                    to_stn_zone_id |-> zone_id_of(r.ZoneCodeTo)] : r \in kept}
            /\ \A p \in ListItems(purposes) : \A t \in ticket_types :
                  growth_matrices[p][t] =
                      IF t \in DOMAIN alone[p] THEN alone[p][t]
                      ELSE [ij \in Positions |-> Zero]

\* a prepared table with one record of unknown origin, one of unknown destination
\* and one with both codes known, the last one alone in the merged table and in
\* the matrices
C18_Witness ==
    /\ pc = "prepared"
    /\ purposes # <<>>
    /\ \E r \in factors_df, u \in factors_df, v \in factors_df :
          /\ r.ZoneCodeFrom = UnknownCode /\ r.Demand_rate # Zero
          /\ u.ZoneCodeTo = UnknownCode /\ u.Demand_rate # Zero
          /\ v.ZoneCodeFrom \in known_codes /\ v.ZoneCodeTo \in known_codes
          /\ v.Demand_rate # Zero
          /\ Cardinality(stn_factors_df) = 1
          /\ \A p \in ListItems(purposes) : \A t \in ticket_types :
                \A ij \in Positions :
                    growth_matrices[p][t][ij] # Zero =>
                        /\ p = v.purpose /\ t = v.TicketType
                        /\ ij = <<zone_id_of(v.ZoneCodeFrom) - 1, zone_id_of(v.ZoneCodeTo) - 1>>
                        /\ growth_matrices[p][t][ij] = v.Demand_rate
          /\ v.purpose \in ListItems(purposes)

oriented_pair(x) ==
    IF to_home THEN <<x.to_model_zone_id, x.from_model_zone_id>>
    ELSE <<x.from_model_zone_id, x.to_model_zone_id>>

\* the split-probability rows of a zone pair for the userclass of the call
props_of(pair) ==
    {pr \in irsj_props :
        /\ pr.from_model_zone_id = pair[1] /\ pr.to_model_zone_id = pair[2]
        /\ pr.userclass = userclass}

\* C11 as stated: when the function has returned and every zone pair with positive
\* demand has a matching split-probability row, the cells of the returned station
\* matrix sum to the sum of the input zonal demand.
C11_Conservation ==
    pc = "returned" =>
        ( (\A x \in demand_mx : IsPositive(x.Demand) => props_of(oriented_pair(x)) # {})
          => SumRat(np_mx, DOMAIN np_mx)
                = SumRat([x \in demand_mx |-> x.Demand], demand_mx) )

\* C11 amended: the same, provided the matching rows of every zone pair with
\* positive demand name stations of 1..stations_count at both ends and their
\* proportions sum to 1.
C11_ConservationUnitProportions ==
    pc = "returned" =>
        ( (\A x \in demand_mx :
              IsPositive(x.Demand) =>
                  LET rows == props_of(oriented_pair(x))
                  IN  /\ rows # {}
                      /\ \A pr \in rows : /\ pr.from_stn_zone_id \in 1 .. S
                                           /\ pr.to_stn_zone_id \in 1 .. S
                      /\ SumRat([pr \in rows |-> pr.proportion], rows) = One)
          => SumRat(np_mx, DOMAIN np_mx)
                = SumRat([x \in demand_mx |-> x.Demand], demand_mx) )

\* a returned call whose demand of one zone pair is split in two halves over two
\* station pairs, the two cells holding the halves
C11_Witness ==
    /\ pc = "returned"
    /\ \E x \in demand_mx : \E pr \in irsj_props, qr \in irsj_props :
          /\ IsPositive(x.Demand)
          /\ props_of(oriented_pair(x)) = {pr, qr}
          /\ pr.proportion = qr.proportion /\ pr.proportion # One
          /\ <<pr.from_stn_zone_id, pr.to_stn_zone_id>> = <<1, S>>
          /\ <<qr.from_stn_zone_id, qr.to_stn_zone_id>> = <<S, 1>>
          /\ demand_mx = {x}
          /\ np_mx[<<0, S - 1>>] = RMul(x.Demand, pr.proportion)
          /\ np_mx[<<S - 1, 0>>] = RMul(x.Demand, qr.proportion)


(***************************************************************************)
(* Properties of the matrix conversions                                    *)
(***************************************************************************)
\* the last conversion applied
last_op == IF ops = <<>> THEN "none" ELSE ops[Len(ops)]

\* the (row, col) keys that more than one row of a table carries
duplicate_keys(table, cols) ==
    {<<x[cols[1]], x[cols[2]]>> :
        x \in {y \in DOMAIN table :
                  \/ table[y] > 1
                  \/ \E z \in DOMAIN table :
                        z # y /\ z[cols[1]] = y[cols[1]] /\ z[cols[2]] = y[cols[2]]}}

\* C12: long_mx_2_wide_mx applied to a long table that holds more than one value
\* for the same (row, col) key pair ends in an error and returns no matrix.
C12_DuplicatesRejected ==
    (last_op = "to_wide" /\ duplicate_keys(mx_df, columns) # {}) => pc = "error"

\* the identifier pairs of the rows of a table
key_pairs(table) == {<<row_of(x), col_of(x)>> : x \in DOMAIN table}

\* the rows of a table that carry one identifier pair
rows_at(table, pair) == {x \in DOMAIN table : <<row_of(x), col_of(x)>> = pair}

\* C13 as stated: the table expand_matrix(t, n) returns has exactly the n * n
\* identifier pairs of [1..n] x [1..n]; a pair absent from t has one row of value
\* 0 and a pair present in t keeps the rows and values t has for it.
C13_ExpandExactGrid ==
    ops = <<"expand">> =>
        /\ key_pairs(mx_df) = full_grid(ZoneCount)
        /\ \A g \in full_grid(ZoneCount) :
              IF rows_at(mx_in, g) = {}
              THEN \E x \in DOMAIN mx_df :
                      rows_at(mx_df, g) = {x} /\ x.Demand = Zero /\ mx_df[x] = 1
              ELSE /\ rows_at(mx_df, g) = rows_at(mx_in, g)
                   /\ \A x \in rows_at(mx_in, g) : mx_df[x] = mx_in[x]

\* C13 amended: the table expand_matrix(t, n) returns holds every pair of
\* [1..n] x [1..n] and every row of t: a grid pair absent from t has one row of
\* value 0, and every row of t, inside the grid or outside it, is kept with its
\* value, so the identifier pairs are those of the grid and those of t.
C13_ExpandOuterJoin ==
    ops = <<"expand">> =>
        /\ key_pairs(mx_df) = full_grid(ZoneCount) \cup key_pairs(mx_in)
        /\ \A g \in full_grid(ZoneCount) \cup key_pairs(mx_in) :
              IF rows_at(mx_in, g) = {}
              THEN \E x \in DOMAIN mx_df :
                      rows_at(mx_df, g) = {x} /\ x.Demand = Zero /\ mx_df[x] = 1
              ELSE /\ rows_at(mx_df, g) = rows_at(mx_in, g)
                   /\ \A x \in rows_at(mx_in, g) : mx_df[x] = mx_in[x]

\* an expanded table whose input had a non-zero row inside the grid and a row
\* outside it: the output has one row more than the grid has pairs
C13_Witness ==
    /\ ops = <<"expand">>
    /\ \E x \in DOMAIN mx_in, y \in DOMAIN mx_in :
          /\ <<row_of(x), col_of(x)>> \in full_grid(ZoneCount) /\ x.Demand # Zero
          /\ <<row_of(y), col_of(y)>> \notin full_grid(ZoneCount)
          /\ x \in DOMAIN mx_df /\ y \in DOMAIN mx_df
    /\ Cardinality(DOMAIN mx_df) = ZoneCount * ZoneCount + 1

\* C14: for a long table t with at most one value per key pair and all identifiers
\* in [1..n], wide_mx_2_long_mx(long_mx_2_wide_mx(expand_matrix(t, n))) has exactly
\* one row per pair (i, j) of [1..n] x [1..n], carrying t's value at (i, j) when t
\* has that pair and 0 otherwise, and position (i - 1, j - 1) of the wide matrix
\* holds the value of identifiers (i, j).
C14_RoundTrip ==
    ( /\ ops = <<"expand", "to_wide", "to_long">>
      /\ duplicate_keys(mx_in, columns_in) = {}
      /\ key_pairs(mx_in) \subseteq full_grid(ZoneCount) )
    => /\ key_pairs(mx_df) = full_grid(ZoneCount)
       /\ DOMAIN wide_mx = (0 .. ZoneCount - 1) \X (0 .. ZoneCount - 1)
       /\ \A g \in full_grid(ZoneCount) :
             LET value == IF rows_at(mx_in, g) = {} THEN Zero
                          ELSE (CHOOSE x \in rows_at(mx_in, g) : TRUE).Demand
             IN  /\ \E x \in DOMAIN mx_df :
                       rows_at(mx_df, g) = {x} /\ mx_df[x] = 1 /\ x.Demand = value
                 /\ wide_mx[<<g[1] - 1, g[2] - 1>>] = value

\* a completed round trip of a table whose only non-zero value is off the diagonal
C14_Witness ==
    /\ ops = <<"expand", "to_wide", "to_long">>
    /\ duplicate_keys(mx_in, columns_in) = {}
    /\ key_pairs(mx_in) \subseteq full_grid(ZoneCount)
    /\ \E x \in DOMAIN mx_in :
          /\ row_of(x) # col_of(x) /\ x.Demand # Zero
          /\ \A y \in DOMAIN mx_in : y # x => y.Demand = Zero
          /\ long_row(TRUE, row_of(x), col_of(x), x.Demand) \in DOMAIN mx_df
          /\ long_row(TRUE, col_of(x), row_of(x), Zero) \in DOMAIN mx_df

\* C15: applying expand_matrix with dimension n to a table that is the output of
\* expand_matrix with dimension n returns the same rows with the same values and
\* columns, adding and changing none.
C15_ExpandIdempotent ==
    [][(last_op = "expand" /\ ops' = Append(ops, "expand"))
          => (mx_df' = mx_df /\ columns' = columns)]_vars

\* a table expanded twice whose input had a non-zero row, a duplicated key and
\* rows the first expansion added
C15_Witness ==
    /\ ops = <<"expand", "expand">>
    /\ duplicate_keys(mx_in, columns_in) # {}
    /\ \E x \in DOMAIN mx_in : x.Demand # Zero
    /\ Cardinality(DOMAIN mx_df) > Cardinality(DOMAIN mx_in)
    /\ mx_df = expand_matrix(mx_in, ZoneCount, is_stations(columns_in))

\* the exchange of the origin and destination columns of one kind in a row
exchanged(x, stations) ==
    LET from_col == od_cols(stations)[1]
        to_col == od_cols(stations)[2]
    IN  IF from_col \in DOMAIN x /\ to_col \in DOMAIN x
        THEN [x EXCEPT ![from_col] = x[to_col], ![to_col] = x[from_col]]
        ELSE x

\* C20: for either value of the stations flag, two applications of
\* transpose_matrix with the same flag return the original column names in their
\* positions with the original values, and one application exchanges the names of
\* exactly the origin and destination columns of the selected kind: what was
\* under the origin name is under the destination name and conversely, every
\* other column keeps its name, and no column moves or changes a value.
C20_TransposeSelfInverse ==
    \A stations \in BOOLEAN :
        LET op == IF stations THEN "transpose_stations" ELSE "transpose_zones"
            from_col == od_cols(stations)[1]
            to_col == od_cols(stations)[2]
        IN  /\ ops = <<op, op>> => (mx_df = mx_in /\ columns = columns_in)
            /\ ops = <<op>> =>
                  /\ Len(columns) = Len(columns_in)
                  /\ \A n \in 1 .. Len(columns) :
                        columns[n] = IF columns_in[n] = from_col THEN to_col
                                     ELSE IF columns_in[n] = to_col THEN from_col
                                     ELSE columns_in[n]
                  /\ DOMAIN mx_df = {exchanged(x, stations) : x \in DOMAIN mx_in}
                  /\ \A x \in DOMAIN mx_in : mx_df[exchanged(x, stations)] = mx_in[x]
                  /\ by_position(mx_df, columns) = by_position(mx_in, columns_in)

\* a table with an asymmetric row transposed twice with the flag of its own
\* columns: back to the input, while one application had changed it
C20_Witness ==
    /\ Len(ops) = 2 /\ ops[1] = ops[2]
    /\ ops[1] = IF is_stations(columns_in) THEN "transpose_stations" ELSE "transpose_zones"
    /\ \E x \in DOMAIN mx_in : row_of(x) # col_of(x) /\ x.Demand # Zero
    /\ transpose_matrix(mx_in, is_stations(columns_in)) # mx_in
    /\ mx_df = mx_in /\ columns = columns_in

\* the zone pairs of the frame the join of lines 304-308 is made on: every
\* movement of the zone grid and every movement of the demand matrix
frame_pairs == full_grid(ZoneCount) \cup {oriented_pair(x) : x \in demand_mx}

\* whether a split-probability row names a station of 1..stations_count at both ends
resolvable(pr) == pr.from_stn_zone_id \in 1 .. S /\ pr.to_stn_zone_id \in 1 .. S

\* C19: when the function has returned, the station matrix is S x S and each of
\* its cells is the sum of demand times proportion over the rows whose two
\* stations are the stations of that cell, so a row whose origin or destination
\* station is 0 or missing adds nothing to any cell; the zone-station lookup has
\* no missing value and still holds every such row: a zone pair without a
\* split-probability row as (origin zone, 0, 0, destination zone, 0, 0), and a
\* split-probability row with an unresolved station with that station as 0, its
\* origin proportion, and the destination proportion 0 where it is undefined.
C19_UnresolvedRowsKept ==
    pc = "returned" =>
        /\ DOMAIN np_mx = Positions
        /\ \A ij \in Positions :
              np_mx[ij] =
                  SumRat([x \in demand_mx |->
                            LET rows == {pr \in props_of(oriented_pair(x)) :
                                            /\ pr.from_stn_zone_id = ij[1] + 1
                                            /\ pr.to_stn_zone_id = ij[2] + 1}
                            IN  SumRat([pr \in rows |-> RMul(x.Demand, pr.proportion)], rows)],
                         demand_mx)
        /\ \A y \in DOMAIN zonal_from_to_stns :
              /\ y.from_stn_zone_id # NaNId /\ y.to_stn_zone_id # NaNId
              /\ IsFinite(y.stn_from_zone) /\ IsFinite(y.stn_to_zone)
        /\ \A g \in frame_pairs :
              IF props_of(g) = {}
              THEN [from_model_zone_id |-> g[1], from_stn_zone_id |-> 0,
                    to_stn_zone_id |-> 0, to_model_zone_id |-> g[2],
                    stn_from_zone |-> Zero, stn_to_zone |-> Zero]
                        \in DOMAIN zonal_from_to_stns
              ELSE \A pr \in props_of(g) :
                      ~resolvable(pr) =>
                          \E y \in DOMAIN zonal_from_to_stns :
                              /\ y.from_model_zone_id = g[1] /\ y.to_model_zone_id = g[2]
                              /\ y.from_stn_zone_id =
                                    IF pr.from_stn_zone_id = NaNId THEN 0
                                    ELSE pr.from_stn_zone_id
                              /\ y.to_stn_zone_id =
                                    IF pr.to_stn_zone_id = NaNId THEN 0
                                    ELSE pr.to_stn_zone_id
                              /\ y.stn_from_zone = pr.proportion
                              /\ pr.to_stn_zone_id = NaNId => y.stn_to_zone = Zero

\* a returned call with a demand row without a split-probability row and a demand
\* row split over a resolved station pair and a pair with the no-record station:
\* only the resolved share is in the matrix, and both unresolved rows are in the
\* lookup
C19_Witness ==
    /\ pc = "returned"
    /\ \E x \in demand_mx, z \in demand_mx : \E pr \in irsj_props, qr \in irsj_props :
          /\ props_of(oriented_pair(x)) = {}
          /\ props_of(oriented_pair(z)) = {pr, qr}
          /\ resolvable(pr) /\ ~resolvable(qr)
          /\ np_mx[<<pr.from_stn_zone_id - 1, pr.to_stn_zone_id - 1>>]
                = RMul(z.Demand, pr.proportion)
          /\ \A ij \in Positions :
                ij # <<pr.from_stn_zone_id - 1, pr.to_stn_zone_id - 1>> => np_mx[ij] = Zero
          /\ \E y \in DOMAIN zonal_from_to_stns :
                /\ <<y.from_model_zone_id, y.to_model_zone_id>> = oriented_pair(x)
                /\ y.from_stn_zone_id = 0 /\ y.to_stn_zone_id = 0
          /\ \E y \in DOMAIN zonal_from_to_stns :
                /\ <<y.from_model_zone_id, y.to_model_zone_id>> = oriented_pair(z)
                /\ 0 \in {y.from_stn_zone_id, y.to_stn_zone_id}
                /\ y.stn_from_zone = qr.proportion

(***************************************************************************)
(* The identity-like split of zonal_from_to_stations_demand                *)
(***************************************************************************)

\* the station pair a split-probability row sends its zone pair to
station_pair_of(pr) == <<pr.from_stn_zone_id, pr.to_stn_zone_id>>

\* every demand row is the only one of its zone pair, has exactly one
\* split-probability row, of proportion 1 and between stations of
\* 1..stations_count, and no two demand rows are sent to the same station pair
identity_like ==
    /\ \A x \in demand_mx :
          \E pr \in irsj_props :
              /\ props_of(oriented_pair(x)) = {pr}
              /\ pr.proportion = One
              /\ resolvable(pr)
    /\ \A x \in demand_mx, z \in demand_mx :
          x # z =>
              /\ oriented_pair(x) # oriented_pair(z)
              /\ \A pr \in props_of(oriented_pair(x)), qr \in props_of(oriented_pair(z)) :
                    station_pair_of(pr) # station_pair_of(qr)

\* C21: when the function has returned from an identity-like split (every zone
\* pair with demand has exactly one split-probability row, of proportion 1, and
\* distinct zone pairs map to distinct station pairs), the cell of the station
\* matrix of each such station pair holds the demand of its zone pair, every
\* other cell is 0, and the lookup holds for each demand-carrying zone pair the
\* row with its stations and stn_from_zone = 1 and stn_to_zone = 1.
C21_IdentitySplit ==
    (pc = "returned" /\ identity_like) =>
        /\ DOMAIN np_mx = Positions
        /\ \A x \in demand_mx : \A pr \in props_of(oriented_pair(x)) :
              /\ np_mx[<<pr.from_stn_zone_id - 1, pr.to_stn_zone_id - 1>>] = x.Demand
              /\ [from_model_zone_id |-> oriented_pair(x)[1],
                  from_stn_zone_id |-> pr.from_stn_zone_id,
                  to_stn_zone_id |-> pr.to_stn_zone_id,
                  to_model_zone_id |-> oriented_pair(x)[2],
                  stn_from_zone |-> One, stn_to_zone |-> One]
                    \in DOMAIN zonal_from_to_stns
        /\ \A ij \in Positions :
              (\A x \in demand_mx : \A pr \in props_of(oriented_pair(x)) :
                    <<pr.from_stn_zone_id - 1, pr.to_stn_zone_id - 1>> # ij)
              => np_mx[ij] = Zero

\* a returned identity-like call with two demand rows of different demand, one
\* sent to the station pair (1, S) and the other to (S, 1)
C21_Witness ==
    /\ pc = "returned"
    /\ identity_like
    /\ \E x \in demand_mx, z \in demand_mx :
          /\ x.Demand # z.Demand
          /\ demand_mx = {x, z}
          /\ np_mx[<<0, S - 1>>] = x.Demand
          /\ np_mx[<<S - 1, 0>>] = z.Demand
          /\ np_mx[<<0, 0>>] = Zero

(***************************************************************************)
(* The orientation of the join of zonal_from_to_stations_demand            *)
(***************************************************************************)

\* the split-probability rows keyed (origin a, destination b) for the userclass
\* of the call
rows_keyed(a, b) ==
    {pr \in irsj_props : /\ pr.from_model_zone_id = a
                         /\ pr.to_model_zone_id = b
                         /\ pr.userclass = userclass}

\* the demand of the rows of rs that reaches the station pair of position ij
share_at(x, rs, ij) ==
    LET rows == {pr \in rs : station_pair_of(pr) = <<ij[1] + 1, ij[2] + 1>>}
    IN  SumRat([pr \in rows |-> RMul(x.Demand, pr.proportion)], rows)

\* C25: when the function has returned, the demand supplied for the zone pair
\* (a, b) has been scaled by the split-probability rows keyed (origin b,
\* destination a) if to_home is set and by the rows keyed (origin a,
\* destination b) if it is not: every cell of the station matrix is the sum of
\* these scaled demands over the rows of its station pair, and the lookup row of
\* each such split row carries the zones in the orientation of the join.
C25_TransposeBeforeJoin ==
    pc = "returned" =>
        /\ DOMAIN np_mx = Positions
        /\ \A ij \in Positions :
              np_mx[ij] =
                  SumRat([x \in demand_mx |->
                            IF to_home
                            THEN share_at(x, rows_keyed(x.to_model_zone_id,
                                                        x.from_model_zone_id), ij)
                            ELSE share_at(x, rows_keyed(x.from_model_zone_id,
                                                        x.to_model_zone_id), ij)],
                         demand_mx)
        /\ \A x \in demand_mx :
              \A pr \in (IF to_home
                         THEN rows_keyed(x.to_model_zone_id, x.from_model_zone_id)
                         ELSE rows_keyed(x.from_model_zone_id, x.to_model_zone_id)) :
                  \E y \in DOMAIN zonal_from_to_stns :
                      /\ y.from_model_zone_id = pr.from_model_zone_id
                      /\ y.to_model_zone_id = pr.to_model_zone_id
                      /\ y.from_stn_zone_id = pr.from_stn_zone_id
                      /\ y.stn_from_zone = pr.proportion

\* a returned to_home call on one demand row of a zone pair (a, b), a # b, with
\* a split row keyed (b, a) to the station pair (1, S) and a split row keyed
\* (a, b) to (S, 1): the demand is in the cell of (1, S) and the cell of (S, 1)
\* is empty
C25_Witness ==
    /\ pc = "returned"
    /\ to_home
    /\ \E x \in demand_mx : \E pr \in irsj_props, qr \in irsj_props :
          /\ demand_mx = {x}
          /\ x.from_model_zone_id # x.to_model_zone_id
          /\ rows_keyed(x.to_model_zone_id, x.from_model_zone_id) = {pr}
          /\ rows_keyed(x.from_model_zone_id, x.to_model_zone_id) = {qr}
          /\ station_pair_of(pr) = <<1, S>>
          /\ station_pair_of(qr) = <<S, 1>>
          /\ np_mx[<<0, S - 1>>] = RMul(x.Demand, pr.proportion)
          /\ np_mx[<<S - 1, 0>>] = Zero

(***************************************************************************)
(* The destination-end proportion of zonal_from_to_stations_demand         *)
(***************************************************************************)

\* the total scaled demand of a station pair: demand times proportion over every
\* demand row and every split-probability row of its zone pair with that pair
scaled_total(sp) ==
    SumRat([x \in demand_mx |->
              LET rows == {pr \in props_of(oriented_pair(x)) : station_pair_of(pr) = sp}
              IN  SumRat([pr \in rows |-> RMul(x.Demand, pr.proportion)], rows)],
           demand_mx)

\* C26: when the function has returned, every row of the lookup whose station
\* pair has a zero total of scaled demand has stn_to_zone = 0, no row of the
\* lookup holds a missing, not-a-number or infinite value, and no cell of the
\* station matrix does.
C26_ZeroTotalFinite ==
    pc = "returned" =>
        /\ \A y \in DOMAIN zonal_from_to_stns :
              /\ y.from_stn_zone_id # NaNId /\ y.to_stn_zone_id # NaNId
              /\ IsFinite(y.stn_from_zone) /\ IsFinite(y.stn_to_zone)
              /\ IsZero(scaled_total(<<y.from_stn_zone_id, y.to_stn_zone_id>>))
                    => y.stn_to_zone = Zero
        /\ \A ij \in DOMAIN np_mx : IsFinite(np_mx[ij])

\* a returned call whose lookup has a row of a split-probability row between two
\* stations of 1..stations_count that no demand reaches: its origin proportion is
\* kept and its destination proportion is 0, next to a row of a station pair
\* with demand
C26_Witness ==
    /\ pc = "returned"
    /\ \E y \in DOMAIN zonal_from_to_stns, z \in DOMAIN zonal_from_to_stns :
          /\ y.from_stn_zone_id \in 1 .. S /\ y.to_stn_zone_id \in 1 .. S
          /\ IsPositive(y.stn_from_zone)
          /\ IsZero(scaled_total(<<y.from_stn_zone_id, y.to_stn_zone_id>>))
          /\ y.stn_to_zone = Zero
          /\ IsPositive(scaled_total(<<z.from_stn_zone_id, z.to_stn_zone_id>>))
          /\ IsPositive(z.stn_to_zone)

\* the rows of the lookup of a station pair
lookup_rows(sp) ==
    {y \in DOMAIN zonal_from_to_stns : <<y.from_stn_zone_id, y.to_stn_zone_id>> = sp}

\* C27: when the function has returned, for every station pair whose total
\* scaled demand is positive, the lookup has for each demand row and each of its
\* split-probability rows with that station pair a row whose stn_to_zone times
\* the total is the demand times the origin proportion, and the stn_to_zone
\* values of all rows of the station pair sum to 1.
C27_DestinationShareNormalised ==
    pc = "returned" =>
        \A sp \in {<<y.from_stn_zone_id, y.to_stn_zone_id>> : y \in DOMAIN zonal_from_to_stns} :
            IsPositive(scaled_total(sp)) =>
                /\ \A x \in demand_mx :
                      \A pr \in {qr \in props_of(oriented_pair(x)) : station_pair_of(qr) = sp} :
                          \E y \in lookup_rows(sp) :
                              /\ y.from_model_zone_id = oriented_pair(x)[1]
                              /\ y.to_model_zone_id = oriented_pair(x)[2]
                              /\ y.stn_from_zone = pr.proportion
                              /\ RMul(y.stn_to_zone, scaled_total(sp))
                                    = RMul(x.Demand, pr.proportion)
                /\ SumRat([y \in lookup_rows(sp) |->
                              RMul(Num(zonal_from_to_stns[y]), y.stn_to_zone)],
                          lookup_rows(sp)) = One

\* a returned call in which two demand rows of different zone pairs reach the
\* same station pair, so that the destination proportions of its rows are
\* proper fractions
C27_Witness ==
    /\ pc = "returned"
    /\ \E x \in demand_mx, z \in demand_mx :
          \E pr \in props_of(oriented_pair(x)), qr \in props_of(oriented_pair(z)) :
              /\ oriented_pair(x) # oriented_pair(z)
              /\ station_pair_of(pr) = station_pair_of(qr)
              /\ resolvable(pr)
              /\ IsPositive(scaled_total(station_pair_of(pr)))
              /\ \E y \in lookup_rows(station_pair_of(pr)) :
                    IsPositive(y.stn_to_zone) /\ y.stn_to_zone # One

(***************************************************************************)
(* The keys fill_missing_factors requires                                  *)
(***************************************************************************)

\* whether the input holds the three matrices the loop reads for a purpose
has_all_types(p) ==
    p \in DOMAIN growth_matrices /\ TicketTypes \subseteq DOMAIN growth_matrices[p]

\* C28: fill_missing_factors needs the matrices F, R and S of every listed
\* purpose.  The loop never goes past a purpose that lacks one; a call that has
\* failed has returned neither a filled set nor a report, and it failed on a
\* listed purpose that lacks a matrix; a call that has returned had all three
\* matrices of every listed purpose, and its filled set and its report have
\* exactly the keys F, R and S for each of them, computed from these three
\* matrices alone, whatever other ticket types the input holds.
C28_AllTypesRequired ==
    /\ pc = "fill" =>
          /\ k <= Len(purposes)
          /\ \A n \in 1 .. k - 1 : has_all_types(purposes[n])
    /\ pc = "error" =>
          /\ filled_growth_matrices = <<>> /\ missing_factors = <<>>
          /\ k \in 1 .. Len(purposes)
          /\ ~has_all_types(purposes[k])
    /\ pc = "done" =>
          \A p \in ListItems(purposes) :
              /\ has_all_types(p)
              /\ DOMAIN filled_growth_matrices[p] = TicketTypes
              /\ DOMAIN missing_factors[p] = TicketTypes
              /\ LET f_mx == growth_matrices[p]["F"]
                     r_mx == growth_matrices[p]["R"]
                     s_mx == growth_matrices[p]["S"]
                 IN  /\ filled_growth_matrices[p]["F"] = filled_f_mx(f_mx, r_mx, s_mx)
                     /\ filled_growth_matrices[p]["R"] = filled_r_mx(f_mx, r_mx, s_mx)
                     /\ filled_growth_matrices[p]["S"] = filled_s_mx(f_mx, r_mx, s_mx)

\* a failed call on two purposes: the first has F, R, S and a further ticket
\* type, the second lacks one of the three, and nothing has been returned
C28_Witness ==
    /\ pc = "error"
    /\ Len(purposes) = 2 /\ k = 2
    /\ DOMAIN growth_matrices[purposes[1]] = TicketTypes \cup {OtherTicketType}
    /\ Cardinality(DOMAIN growth_matrices[purposes[2]] \cap TicketTypes) = 2
    /\ filled_growth_matrices = <<>> /\ missing_factors = <<>>

(***************************************************************************)
(* Properties of production_trip_ends                                      *)
(***************************************************************************)

\* whether the two matrices have the same zone system
same_zone_system ==
    /\ shape(prior) = shape(post)
    /\ prior.index = post.index
    /\ prior.columns = post.columns

\* C22: production_trip_ends has raised ValueError whenever the shapes of the
\* prior and the post matrix differ, or at least one index label differs, or at
\* least one column label differs, and it has returned the two vectors of row
\* sums only when shape, index and columns all agree.
C22_ZoneSystemChecked ==
    /\ pc = "returned" =>
          /\ same_zone_system
          /\ productions = <<row_sums(prior), row_sums(post)>>
    /\ pc = "ValueError" => ~same_zone_system /\ productions = <<>>

(***************************************************************************)
(* Properties of iter_od_matrices                                          *)
(***************************************************************************)

\* the whole suffix of an entry, in lower case
whole_suffix(entry) == [n \in DOMAIN entry.suffixes |-> lower(entry.suffixes[n])]

\* the MatrixDetails yielded for an entry of the prior folder
yielded_for(entry) == {n \in DOMAIN yielded : yielded[n].prior = entry}

\* C23: when the generator has ended, every prior file whose suffix is one of
\* .csv, .csv.bz2 and .pbz2, whose name parses to the matrix format od_from and
\* for which a post file of the same stem and one of these suffixes exists has
\* been yielded exactly once, paired with the first existing post file in the
\* order .csv, .csv.bz2, .pbz2; nothing has been yielded for any other entry.
C23_EveryListedSuffixPaired ==
    pc = "exhausted" =>
        \A entry \in prior_folder :
            IF /\ ~entry.is_dir
               /\ whole_suffix(entry) \in {suffixes[n] : n \in DOMAIN suffixes}
               /\ entry.matrix_format = "od_from"
               /\ existing_posts(stem_of(entry), post_folder) # {}
            THEN /\ Cardinality(yielded_for(entry)) = 1
                 /\ \A n \in yielded_for(entry) :
                       yielded[n].post =
                           post_path(stem_of(entry),
                                     suffixes[first_of(existing_posts(stem_of(entry),
                                                                      post_folder))])
            ELSE yielded_for(entry) = {}

(***************************************************************************)
(* Properties of NoTEM.run                                                 *)
(***************************************************************************)

\* whether the flags of the call select a model, as the docstring of lines
\* 153-174 describes them
selected_by_flags(m) ==
    \/ run_args["generate_all"]
    \/ m \in {"hb_production", "hb_attraction"} /\ run_args["generate_hb"]
    \/ m \in {"nhb_production", "nhb_attraction"} /\ run_args["generate_nhb"]
    \/ m = "hb_production" /\ run_args["generate_hb_production"]
    \/ m = "hb_attraction" /\ run_args["generate_hb_attraction"]
    \/ m = "nhb_production" /\ run_args["generate_nhb_production"]
    \/ m = "nhb_attraction" /\ run_args["generate_nhb_attraction"]

\* the models of a list
models_of(list) == {list[n] : n \in DOMAIN list}

\* C24: NoTEM.run runs exactly the models its flags select: generate_all selects
\* all four, generate_hb the two home based models, generate_nhb the two non
\* home based models and each single-model flag its model.  While it runs it
\* has started no model that no flag selects, and when it has returned, the
\* models it has run are the selected models.
C24_RunsSelectedModels ==
    /\ pc \in {"run", "returned"} =>
          \A m \in models_of(started) : selected_by_flags(m)
    /\ pc = "returned" =>
          /\ models_of(started) = {m \in TripEndModels : selected_by_flags(m)}
          /\ models_of(completed) = {m \in TripEndModels : selected_by_flags(m)}

\* a returned run called with generate_all alone: all four models have run
C24_Witness ==
    /\ pc = "returned"
    /\ run_args = [f \in FlagNames |-> f = "generate_all"]
    /\ models_of(completed) = TripEndModels

\* the position of a model in the order HB production, HB attraction, NHB
\* production, NHB attraction
fixed_position(m) ==
    IF m = "hb_production" THEN 1
    ELSE IF m = "hb_attraction" THEN 2
    ELSE IF m = "nhb_production" THEN 3
    ELSE 4

\* the models started so far stand in the fixed order, none twice, and all but a
\* running one have returned
started_in_order ==
    /\ \A i \in DOMAIN started, j \in DOMAIN started :
          i < j => fixed_position(started[i]) < fixed_position(started[j])
    /\ IF running = "none" THEN completed = started
       ELSE /\ started # <<>>
            /\ running = started[Len(started)]
            /\ completed = SubSeq(started, 1, Len(started) - 1)

\* a step that starts a model starts it when every model started before has
\* returned, and every selected model whose exports it reads has returned
start_after_return ==
    (started' # started) =>
        /\ running = "none"
        /\ completed = started
        /\ \E m \in TripEndModels :
              /\ started' = Append(started, m)
              /\ \A p \in reads(m) : selected_by_flags(p) => p \in models_of(completed)

\* C29: for every combination of flags NoTEM.run starts the selected models in
\* the order HB production, HB attraction, NHB production, NHB attraction, each
\* at most once, and starts a model only after the model started before it has
\* returned, so a selected model whose exports another selected model reads has
\* returned before that model starts.
C29_FixedOrderSequential == [](started_in_order) /\ [][start_after_return]_vars

\* a run with all four models selected in which NHB attraction is running and
\* the three models whose exports it depends on have returned in order
C29_Witness ==
    /\ pc = "run"
    /\ running = "nhb_attraction"
    /\ completed = <<"hb_production", "hb_attraction", "nhb_production">>

(***************************************************************************)
(* Properties of NHBProductionModel.__init__                               *)
(***************************************************************************)

\* whether the arguments hold every year of land_use_paths
years_covered ==
    \A y \in keys(land_use_paths) :
        /\ y \in hb_attractions
        /\ constraint_paths.given => y \in constraint_paths.years

=============================================================================
